---- MODULE Spec2Model ----
(***************************************************************************)
(* A model of the ComplianceSync example backend:                          *)
(*   app.py                              the Flask routes and their caches *)
(*   compliance_evaluator_perplexity.py  evaluate_compliance(jurisdiction) *)
(*   compliance_evaluator.py             extract_requirements(content)     *)
(*                                                                         *)
(* Text is modelled as a sequence of lexemes (tokens).  For JSON text the  *)
(* lexemes are the brackets, the object keys, the scalars and runs of      *)
(* prose; whitespace and the ',' and ':' separators are elided.  Python    *)
(* values are records of one shape, [t, n, s, keys, items].                *)
(***************************************************************************)
EXTENDS Integers, Sequences, FiniteSets, TLC

VARIABLES
    now,                      \* time.time(), in seconds
    calls,                    \* calls of the LLM client functions so far
    stored_analysis_results,  \* app.py:44, cache key -> entry
    document_cache,           \* app.py:45, cache key -> entry
    prev_stored,              \* stored_analysis_results before the last request
    prev_docs,                \* document_cache before the last request
    last,                     \* the last request handled and its response
    ev,                       \* a PerplexityComplianceEvaluator and its call
    ex,                       \* an extract_requirements call
    race,                     \* concurrent /analyze-compliance requests
    qp,                       \* a query_perplexity_api call
    ing,                      \* document ingestion and the report pipeline
    fn,                       \* a call of a helper function
    exp                       \* concurrent /export-regulatory-doc requests

vars == <<now, calls, stored_analysis_results, document_cache,
          prev_stored, prev_docs, last, ev, ex, race, qp, ing, fn, exp>>

---------------------------------------------------------------------------
(* Bounds of the model *)

MaxCalls == 2       \* calls of the LLM client functions in one behaviour
MaxPeriods == 1     \* requests arrive within this many TTLs of the start
MaxLines == 3       \* lines of a Markdown answer
MaxAttempts == 5    \* POSTs of one query_perplexity_api call
MaxPages == 2       \* pages of a scanned PDF
MaxDocs == 2        \* documents of one analyze_documents call
MaxPieces == 5      \* pieces of a domain name

(* Program constants *)

ANALYSIS_TTL == 3600
DOC_TTL == 86400

---------------------------------------------------------------------------
(* Python values *)

JNull == [t |-> "null", n |-> 0, s |-> "", keys |-> <<>>, items |-> <<>>]
JNum(n) == [t |-> "num", n |-> n, s |-> "", keys |-> <<>>, items |-> <<>>]
JStr(s) == [t |-> "str", n |-> 0, s |-> s, keys |-> <<>>, items |-> <<>>]
JArr(items) == [t |-> "arr", n |-> 0, s |-> "", keys |-> <<>>, items |-> items]
JObj(keys, items) == [t |-> "obj", n |-> 0, s |-> "", keys |-> keys, items |-> items]

\* bool(v): None, 0, '', [] and {} are false
Truthy(v) ==
    CASE v.t = "null" -> FALSE
      [] v.t = "num" -> v.n # 0
      [] v.t = "str" -> v.s # ""
      [] v.t = "arr" -> v.items # <<>>
      [] v.t = "obj" -> v.keys # <<>>

\* d.get(key, default) on a dict d: the value of the last member named key
Get(d, key, default) ==
    LET hits == {i \in 1..Len(d.keys) : d.keys[i] = key}
    IN IF hits = {} THEN default
       ELSE d.items[CHOOSE i \in hits : \A j \in hits : j <= i]

\* f"{v}" for the values the requests carry: a string, or None
Fmt(v) == IF v.t = "str" THEN v.s ELSE "None"

---------------------------------------------------------------------------
(* JSON text and json.loads *)

Tok(k, s, n) == [k |-> k, s |-> s, n |-> n]
TOpen == Tok("{", "", 0)
TClose == Tok("}", "", 0)
TLbr == Tok("[", "", 0)
TRbr == Tok("]", "", 0)
TKey(s) == Tok("key", s, 0)
TStr(s) == Tok("str", s, 0)
TNum(n) == Tok("num", "", n)
TNull == Tok("null", "", 0)
TProse == Tok("prose", "", 0)       \* text that is not JSON and holds no brace
TFence == Tok("fence", "", 0)       \* the opening of a Markdown json block
TFenceEnd == Tok("endfence", "", 0) \* the closing of a Markdown block
TSq(s) == Tok("sqstr", s, 0)       \* a string in single quotes: not JSON

ParseFail == [ok |-> FALSE, v |-> JNull, nxt |-> 0]

RECURSIVE ParseValue(_, _), ParseItems(_, _, _), ParseMembers(_, _, _, _)

ParseValue(toks, i) ==
    IF i > Len(toks) THEN ParseFail
    ELSE CASE toks[i].k = "num" -> [ok |-> TRUE, v |-> JNum(toks[i].n), nxt |-> i + 1]
           [] toks[i].k = "str" -> [ok |-> TRUE, v |-> JStr(toks[i].s), nxt |-> i + 1]
           [] toks[i].k = "null" -> [ok |-> TRUE, v |-> JNull, nxt |-> i + 1]
           [] toks[i].k = "[" -> ParseItems(toks, i + 1, <<>>)
           [] toks[i].k = "{" -> ParseMembers(toks, i + 1, <<>>, <<>>)
           [] OTHER -> ParseFail

ParseItems(toks, i, acc) ==
    IF i > Len(toks) THEN ParseFail
    ELSE IF toks[i].k = "]" THEN [ok |-> TRUE, v |-> JArr(acc), nxt |-> i + 1]
    ELSE LET r == ParseValue(toks, i)
         IN IF r.ok THEN ParseItems(toks, r.nxt, Append(acc, r.v)) ELSE ParseFail

ParseMembers(toks, i, ks, vs) ==
    IF i > Len(toks) THEN ParseFail
    ELSE IF toks[i].k = "}" THEN [ok |-> TRUE, v |-> JObj(ks, vs), nxt |-> i + 1]
    ELSE IF toks[i].k = "key"
         THEN LET r == ParseValue(toks, i + 1)
              IN IF r.ok
                 THEN ParseMembers(toks, r.nxt, Append(ks, toks[i].s), Append(vs, r.v))
                 ELSE ParseFail
         ELSE ParseFail

\* json.loads(text): ok is FALSE where it raises JSONDecodeError
json_loads(toks) ==
    LET r == ParseValue(toks, 1)
    IN IF r.ok /\ r.nxt = Len(toks) + 1
       THEN [ok |-> TRUE, v |-> r.v]
       ELSE [ok |-> FALSE, v |-> JNull]

\* content.find('{'), content.rfind('}'): 1-based, 0 when there is none
Find(toks, k) ==
    LET hits == {i \in 1..Len(toks) : toks[i].k = k}
    IN IF hits = {} THEN 0 ELSE CHOOSE i \in hits : \A j \in hits : i <= j

RFind(toks, k) ==
    LET hits == {i \in 1..Len(toks) : toks[i].k = k}
    IN IF hits = {} THEN 0 ELSE CHOOSE i \in hits : \A j \in hits : j <= i

\* content[a:b+1], 1-based and inclusive; empty when b < a
Slice(toks, a, b) == IF b < a THEN <<>> ELSE SubSeq(toks, a, b)

---------------------------------------------------------------------------
(* app.py: jurisdiction tables *)

\* str.upper() on the jurisdiction ids of the model
Upper(s) ==
    CASE s = "xx" -> "XX"
      [] s = "us" -> "US"
      [] s = "in" -> "IN"
      [] OTHER -> s

KnownJurisdictions ==
    {"us", "eu", "uk", "sg", "au", "ca", "de", "fr", "jp", "cn", "in", "br", "za", "ae", "ch"}

get_jurisdiction_name(jurisdiction_id) ==
    CASE jurisdiction_id = "us" -> "United States"
      [] jurisdiction_id = "eu" -> "European Union"
      [] jurisdiction_id = "uk" -> "United Kingdom"
      [] jurisdiction_id = "sg" -> "Singapore"
      [] jurisdiction_id = "au" -> "Australia"
      [] jurisdiction_id = "ca" -> "Canada"
      [] jurisdiction_id = "de" -> "Germany"
      [] jurisdiction_id = "fr" -> "France"
      [] jurisdiction_id = "jp" -> "Japan"
      [] jurisdiction_id = "cn" -> "China"
      [] jurisdiction_id = "in" -> "India"
      [] jurisdiction_id = "br" -> "Brazil"
      [] jurisdiction_id = "za" -> "South Africa"
      [] jurisdiction_id = "ae" -> "United Arab Emirates"
      [] jurisdiction_id = "ch" -> "Switzerland"
      [] OTHER -> Upper(jurisdiction_id)

\* the flag glyph, written as its two regional-indicator letters
get_jurisdiction_flag(jurisdiction_id) ==
    IF jurisdiction_id \in KnownJurisdictions
    THEN "flag-" \o (IF jurisdiction_id = "uk" THEN "gb" ELSE jurisdiction_id)
    ELSE "flag-white"

---------------------------------------------------------------------------
(* app.py: the upstream answer and its parsing *)

\* What requests.post gives: exc when it raises (timeout, connection error);
\* body is "content" (choices[0].message.content is content, '' when a key of
\* the path is absent), "nochoice" (choices is []) or "notjson".
Resp(exc, status_code, body, content) ==
    [exc |-> exc, status_code |-> status_code, body |-> body, content |-> content]

NoResp == Resp(FALSE, 0, "none", <<>>)

\* An f-string is a sequence of replacement fields {expr:spec}; each is
\* evaluated as format(expr, spec).  For a str value the spec must follow the
\* format mini-language ([[fill]align][width][.precision][s]), or format
\* raises ValueError.  A '{' that is not doubled opens a field: the JSON
\* example in a prompt is read as the field {"status": ...}, whose spec is the
\* rest of the example.
Field(expr, spec) == [expr |-> expr, spec |-> spec]

FormatSpecOk(spec) == spec = ""

\* whether evaluating the f-string returns (FALSE: it raises ValueError)
FStringOk(fields) == \A i \in 1..Len(fields) : FormatSpecOk(fields[i].spec)

\* the fields of the prompt of get_compliance_from_perplexity, app.py:718-762
AnalysisPromptFields ==
    <<Field("company_profile.get('companySize', '')", ""),
      Field("company_profile.get('industry', '')", ""),
      Field("jurisdiction", ""),
      Field("company_profile.get('companyName', 'Company')", ""),
      Field("company_profile.get('companySize', '')", ""),
      Field("company_profile.get('industry', '')", ""),
      Field("company_profile.get('description', '')", ""),
      Field("'id'", " 'unique-id', 'title': 'Requirement Title', ..."),
      Field("'status'", " 'compliant|partial|non-compliant', 'riskLevel': ..."),
      Field("jurisdiction", "")>>

\* the fields of the prompt of get_regulatory_document, app.py:575-597
DocumentPromptFields ==
    <<Field("company_profile.get('companySize', '')", ""),
      Field("company_profile.get('industry', '')", ""),
      Field("jurisdiction", ""),
      Field("doc_type", ""),
      Field("company_profile.get('industry', '')", ""),
      Field("jurisdiction", "")>>

\* json.loads(text) or None
LoadsOrNone(toks) ==
    LET r == json_loads(toks) IN IF r.ok THEN r.v ELSE JNull

\* app.py:801-837: what the function makes of the response to its POST
ParseAnswer(response) ==
    IF response.exc THEN JNull
    ELSE IF response.status_code # 200 THEN JNull
    ELSE IF response.body # "content" THEN JNull
    ELSE LET content == response.content
             json_start == Find(content, "{")
             json_end == RFind(content, "}")
         IN IF content = <<>> THEN JNull
            ELSE IF json_start = 0 \/ json_end = 0
                 THEN LoadsOrNone(content)
                 ELSE LoadsOrNone(Slice(content, json_start, json_end))

\* whether the function reaches its requests.post
AnalysisPosts == FStringOk(AnalysisPromptFields)

\* The prompt is built inside the try: the ValueError of its f-string is
\* caught at app.py:839 and the function returns None without a POST.
get_compliance_from_perplexity(response) ==
    IF ~AnalysisPosts THEN JNull ELSE ParseAnswer(response)

---------------------------------------------------------------------------
(* app.py: format_compliance_response *)

ReportNone ==
    [none |-> TRUE, jurisdictionId |-> "", jurisdictionName |-> "", flag |-> "",
     complianceScore |-> JNull, status |-> JNull, riskLevel |-> JNull,
     total |-> 0, met |-> 0, requirementsList |-> JNull]

\* len(v); ok is FALSE where it raises TypeError
PyLen(v) ==
    CASE v.t = "arr" -> [ok |-> TRUE, n |-> Len(v.items)]
      [] v.t = "str" -> [ok |-> TRUE, n |-> Len(v.s)]
      [] v.t = "obj" -> [ok |-> TRUE, n |-> Cardinality({v.keys[i] : i \in 1..Len(v.keys)})]
      [] OTHER -> [ok |-> FALSE, n |-> 0]

\* whether "for req in v: req.get('status')" runs without raising: every
\* element must be a dict (the elements of a str or a dict are strings)
IterGetOk(v) ==
    CASE v.t = "arr" -> \A i \in 1..Len(v.items) : v.items[i].t = "obj"
      [] v.t = "str" -> v.s = ""
      [] v.t = "obj" -> v.keys = <<>>
      [] OTHER -> FALSE

\* sum(1 for req in requirements_list if req.get('status') == 'met')
CountMet(requirements_list) ==
    Cardinality({i \in 1..Len(requirements_list.items) :
                    Get(requirements_list.items[i], "status", JNull) = JStr("met")})

\* a total taken from the answer's own "requirements" member when it has one
TotalRequirements_FromAnswer(compliance_data, requirements_list) ==
    Get(Get(compliance_data, "requirements", JObj(<<>>, <<>>)), "total",
        JNum(PyLen(requirements_list).n)).n

TotalRequirements(compliance_data, requirements_list) == PyLen(requirements_list).n

format_compliance_response(compliance_data, jurisdiction) ==
    IF ~Truthy(compliance_data) THEN ReportNone
    ELSE IF compliance_data.t # "obj" THEN ReportNone
    ELSE LET requirements_list == Get(compliance_data, "requirementsList", JArr(<<>>))
         IN IF ~PyLen(requirements_list).ok \/ ~IterGetOk(requirements_list)
            THEN ReportNone
            ELSE [none |-> FALSE,
                  jurisdictionId |-> jurisdiction,
                  jurisdictionName |-> get_jurisdiction_name(jurisdiction),
                  flag |-> get_jurisdiction_flag(jurisdiction),
                  complianceScore |-> Get(compliance_data, "complianceScore", JNum(0)),
                  status |-> Get(compliance_data, "status", JStr("non-compliant")),
                  riskLevel |-> Get(compliance_data, "riskLevel", JStr("high")),
                  total |-> TotalRequirements(compliance_data, requirements_list),
                  met |-> CountMet(requirements_list),
                  requirementsList |-> requirements_list]

---------------------------------------------------------------------------
(* app.py: POST /analyze-compliance *)

\* A request: raw is "absent" for a POST whose JSON body is missing (an empty
\* body under Content-Type: application/json, for which request.json raises
\* BadRequest), "json" for a body that parses to data.
Req(raw, data) == [raw |-> raw, data |-> data]

AnalysisKey(jurisdiction, company_profile) ==
    Fmt(jurisdiction) \o "_" \o Fmt(Get(company_profile, "companyName", JStr("")))
        \o "_" \o Fmt(Get(company_profile, "industry", JStr("")))

\* a cache test that is off by one second
AnalysisFresh_OffByOne(cache, cache_key, current_time) ==
    /\ cache_key \in DOMAIN cache
    /\ current_time - cache[cache_key].timestamp < ANALYSIS_TTL - 1

\* a cache test that still serves an entry aged exactly one TTL
AnalysisFresh_Inclusive(cache, cache_key, current_time) ==
    /\ cache_key \in DOMAIN cache
    /\ current_time - cache[cache_key].timestamp <= ANALYSIS_TTL

\* the cache test of app.py:81
AnalysisFresh(cache, cache_key, current_time) ==
    /\ cache_key \in DOMAIN cache
    /\ current_time - cache[cache_key].timestamp < ANALYSIS_TTL

\* an assignment that drops the entries of the other keys
Put_Replacing(cache, cache_key, entry) == [k \in {cache_key} |-> entry]

\* cache[cache_key] = entry
Put(cache, cache_key, entry) ==
    [k \in DOMAIN cache \cup {cache_key} |-> IF k = cache_key THEN entry ELSE cache[k]]

\* app.py:95-98: the entry is built first and stored by one assignment
StoreAnalysis(cache, cache_key, current_time, formatted_response) ==
    Put(cache, cache_key, [timestamp |-> current_time, data |-> formatted_response])

Reply(status, error, report, cache, invoked, cache_key) ==
    [status |-> status, error |-> error, report |-> report, cache |-> cache,
     invoked |-> invoked, cache_key |-> cache_key]

\* app.py:88-100, with compliance_data what get_compliance_from_perplexity gave
AnalyzeMiss(compliance_data, jurisdiction, cache, cache_key, current_time) ==
    IF ~Truthy(compliance_data)
    THEN Reply(500, "Failed to get compliance data from Perplexity API", ReportNone,
               cache, TRUE, cache_key)
    ELSE LET formatted_response == format_compliance_response(compliance_data, Fmt(jurisdiction))
         IN Reply(200, "", formatted_response,
                  Put(cache, cache_key,
                      [timestamp |-> current_time, data |-> formatted_response]),
                  TRUE, cache_key)

\* compliance_data is what get_compliance_from_perplexity returns if invoked
analyze_compliance(req, cache, current_time, compliance_data) ==
    IF req.raw = "absent"
    THEN Reply(500, "Failed to process request", ReportNone, cache, FALSE, "")
    ELSE IF ~Truthy(req.data)
    THEN Reply(400, "No data provided", ReportNone, cache, FALSE, "")
    ELSE IF req.data.t # "obj"
    THEN Reply(500, "Failed to process request", ReportNone, cache, FALSE, "")
    ELSE LET api_key == Get(req.data, "apiKey", JNull)
             company_profile == Get(req.data, "companyProfile", JNull)
             jurisdiction == Get(req.data, "jurisdiction", JNull)
         IN IF ~Truthy(api_key) \/ ~Truthy(company_profile) \/ ~Truthy(jurisdiction)
            THEN Reply(400, "Missing required fields", ReportNone, cache, FALSE, "")
            ELSE IF company_profile.t # "obj"
            THEN Reply(500, "Failed to process request", ReportNone, cache, FALSE, "")
            ELSE LET cache_key == AnalysisKey(jurisdiction, company_profile)
                 IN IF AnalysisFresh(cache, cache_key, current_time)
                    THEN Reply(200, "", cache[cache_key].data, cache, FALSE, cache_key)
                    ELSE AnalyzeMiss(compliance_data, jurisdiction, cache, cache_key,
                                     current_time)

---------------------------------------------------------------------------
(* app.py: POST /export-regulatory-doc *)

\* The text get_regulatory_document returns: the header (jurisdiction,
\* industry, document type, the time of generation) and either the answer's
\* content or an error line (error is "" for a document).
Document(error, jurisdiction, industry, doc_type, generated, content) ==
    [error |-> error, jurisdiction |-> jurisdiction, industry |-> industry,
     doc_type |-> doc_type, generated |-> generated, content |-> content]

NoDocument == Document("none", "", "", "", 0, <<>>)

get_regulatory_document(jurisdiction, doc_type, company_profile, response, generated) ==
    LET industry == Fmt(Get(company_profile, "industry", JStr("Not specified")))
        Doc(error, content) ==
            Document(error, Fmt(jurisdiction), industry, Fmt(doc_type), generated, content)
    IN IF response.exc THEN Doc("exception", <<>>)
       ELSE IF response.status_code # 200 THEN Doc("API returned status code", <<>>)
       ELSE IF response.body # "content" THEN Doc("exception", <<>>)
       ELSE IF response.content = <<>> THEN Doc("API returned an empty response", <<>>)
       ELSE Doc("", response.content)

\* the PDF: the jurisdiction's name, the time of rendering, the document's lines
generate_regulatory_pdf(document_content, jurisdiction, rendered) ==
    [jurisdictionName |-> get_jurisdiction_name(Fmt(jurisdiction)),
     rendered |-> rendered, from |-> document_content]

NoPdf == [jurisdictionName |-> "", rendered |-> 0, from |-> NoDocument]

DocKey(jurisdiction, doc_type, company_profile) ==
    "reg_doc_" \o Fmt(jurisdiction) \o "_" \o Fmt(doc_type) \o "_"
        \o Fmt(Get(company_profile, "industry", JStr("")))

\* a cache test with the TTL of the analyses
DocFresh_AnalysisTtl(cache, cache_key, current_time) ==
    /\ cache_key \in DOMAIN cache
    /\ current_time - cache[cache_key].timestamp < ANALYSIS_TTL

\* the cache test of app.py:211
DocFresh(cache, cache_key, current_time) ==
    /\ cache_key \in DOMAIN cache
    /\ current_time - cache[cache_key].timestamp < DOC_TTL

DocReply(status, error, pdf, cache, invoked, cache_key) ==
    [status |-> status, error |-> error, pdf |-> pdf, cache |-> cache,
     invoked |-> invoked, cache_key |-> cache_key]

\* lines 181-241 for a request served alone.  The clock is read three times:
\* current_time at line 210, generated by get_regulatory_document when its
\* POST has answered, rendered by generate_regulatory_pdf.
export_regulatory_doc(req, cache, current_time, response, generated, rendered) ==
    IF req.raw = "absent"
    THEN DocReply(500, "Failed to export regulatory document", NoPdf, cache, FALSE, "")
    ELSE IF ~Truthy(req.data)
    THEN DocReply(400, "No data provided", NoPdf, cache, FALSE, "")
    ELSE IF req.data.t # "obj"
    THEN DocReply(500, "Failed to export regulatory document", NoPdf, cache, FALSE, "")
    ELSE LET api_key == Get(req.data, "apiKey", JNull)
             jurisdiction == Get(req.data, "jurisdiction", JNull)
             doc_type == Get(req.data, "docType", JStr("full"))
             company_profile == Get(req.data, "companyProfile", JNull)
         IN IF ~Truthy(api_key) \/ ~Truthy(jurisdiction) \/ ~Truthy(company_profile)
            THEN DocReply(400, "Missing required fields", NoPdf, cache, FALSE, "")
            ELSE IF company_profile.t # "obj"
            THEN DocReply(500, "Failed to export regulatory document", NoPdf, cache, FALSE, "")
            ELSE LET cache_key == DocKey(jurisdiction, doc_type, company_profile)
                 IN IF DocFresh(cache, cache_key, current_time)
                    THEN DocReply(200, "",
                                  generate_regulatory_pdf(cache[cache_key].content,
                                                          jurisdiction, rendered),
                                  cache, FALSE, cache_key)
                    ELSE IF ~FStringOk(DocumentPromptFields)
                    THEN DocReply(500, "Failed to export regulatory document", NoPdf,
                                  cache, TRUE, cache_key)
                    ELSE LET document_content ==
                                 get_regulatory_document(jurisdiction, doc_type,
                                                         company_profile, response, generated)
                         IN DocReply(200, "",
                                     generate_regulatory_pdf(document_content,
                                                             jurisdiction, rendered),
                                     Put(cache, cache_key,
                                         [timestamp |-> current_time,
                                          content |-> document_content]),
                                     TRUE, cache_key)

---------------------------------------------------------------------------
(* app.py: POST /export-report/<format> *)

ExportReply(status, error, mimetype) ==
    [status |-> status, error |-> error, mimetype |-> mimetype]

\* the mimetype of the file of a format, "" for a format that has none
Mimetype(format) ==
    CASE format = "pdf" -> "application/pdf"
      [] format = "excel" ->
             "application/vnd.openxmlformats-officedocument.spreadsheetml.sheet"
      [] format = "csv" -> "text/csv"
      [] OTHER -> ""

\* app.py:243-505: whether generate_pdf_report, generate_excel_report or
\* generate_csv_report raises.  Each begins with report_data.get, which needs
\* a dict; each calls .get on report_data.get('requirements', {}) (lines 312,
\* 419, 480) and iterates report_data.get('requirementsList', []), calling
\* .get on every element (lines 330-332, 435-439, 490-492).  The calls of
\* reportlab, xlsxwriter and csv on the strings and numbers of a report return.
GeneratorRaises(report_data) ==
    \/ report_data.t # "obj"
    \/ Get(report_data, "requirements", JObj(<<>>, <<>>)).t # "obj"
    \/ ~IterGetOk(Get(report_data, "requirementsList", JArr(<<>>)))

\* app.py:107-179.  What a generator raises, line 176 turns into 500; when it
\* returns, the bytes of the file are sent with the mimetype of the format.
export_report(format, req) ==
    IF req.raw = "absent"
    THEN ExportReply(500, "Failed to export report", "")
    ELSE IF ~Truthy(req.data)
    THEN ExportReply(400, "No data provided", "")
    ELSE IF req.data.t # "obj"
    THEN ExportReply(500, "Failed to export report", "")
    ELSE LET report_data == Get(req.data, "data", JNull)
         IN IF ~Truthy(report_data)
            THEN ExportReply(400, "No report data provided", "")
            ELSE IF Mimetype(format) = ""
            THEN ExportReply(400, "Unsupported format", "")
            ELSE IF GeneratorRaises(report_data)
            THEN ExportReply(500, "Failed to export report", "")
            ELSE ExportReply(200, "", Mimetype(format))

---------------------------------------------------------------------------
(* compliance_evaluator_perplexity.py: evaluate_compliance(jurisdiction) *)

\* str.lower() on the jurisdiction ids of the model
Lower(s) ==
    CASE s = "IN" -> "in"
      [] s = "India" -> "india"
      [] s = "US" -> "us"
      [] OTHER -> s

\* the table of the evaluator (it has no "ch" and falls back to the id itself)
evaluator_get_jurisdiction_name(jurisdiction_id) ==
    LET id == Lower(jurisdiction_id)
    IN IF id \in KnownJurisdictions \ {"ch"} THEN get_jurisdiction_name(id)
       ELSE jurisdiction_id

\* the text of generate_india_compliance_text, "" for None
generate_jurisdiction_compliance_text(jurisdiction) ==
    IF Lower(jurisdiction) = "in" \/ Lower(jurisdiction) = "india" THEN "INDIA" ELSE ""

\* the fields of the query of evaluate_compliance, lines 124-194: the JSON
\* example opens the field {"jurisdictionId": ...}, which nests the field
\* {"total": 12, "met": 8} in its spec
EvaluatorQueryFields ==
    <<Field("company_name", ""),
      Field("industry", ""),
      Field("company_size", ""),
      Field("company_description", ""),
      Field("jurisdiction", ""),
      Field("self.compliance_text if self.compliance_text else ''", ""),
      Field("jurisdiction", ""),
      Field("jurisdiction", ""),
      Field("'total'", " 12, 'met': 8 "),
      Field("'jurisdictionId'", " '{jurisdiction}', 'jurisdictionName': ...")>>

\* query_perplexity_api on the response that ends its retries (a 429 answer
\* makes it sleep and call itself again)
query_perplexity_api(response) ==
    IF response.exc \/ response.status_code # 200 \/ response.body = "notjson"
    THEN [raised |-> TRUE, content |-> <<>>, nochoice |-> FALSE]
    ELSE [raised |-> FALSE,
          content |-> IF response.body = "content" THEN response.content ELSE <<>>,
          nochoice |-> response.body = "nochoice"]

\* lines 205-214: the text of the first fenced json block, or else from the
\* first '{' to the last '}'.  The block ends at the first three backticks
\* after its opening, and the opening of another block begins with them.
ExtractJson(content) ==
    LET fence == Find(content, "fence")
        closes == {i \in 1..Len(content) :
                       i > fence /\ content[i].k \in {"endfence", "fence"}}
        close == CHOOSE i \in closes : \A j \in closes : i <= j
        json_start == Find(content, "{")
        json_end == RFind(content, "}")
    IN IF fence # 0 /\ closes # {}
       THEN [ok |-> TRUE, json_str |-> Slice(content, fence + 1, close - 1)]
       ELSE IF json_start # 0 /\ json_end > json_start
       THEN [ok |-> TRUE, json_str |-> Slice(content, json_start, json_end)]
       ELSE [ok |-> FALSE, json_str |-> <<>>]

\* json_str.replace("'", '"'): single-quoted strings become JSON strings
Repair(json_str) ==
    [i \in 1..Len(json_str) |->
        IF json_str[i].k = "sqstr" THEN TStr(json_str[i].s) ELSE json_str[i]]

\* the dict of lines 236-248
ErrorEntry(jurisdiction, error) ==
    JObj(<<"jurisdictionId", "jurisdictionName", "complianceScore", "status", "riskLevel",
           "error", "requirements", "requirementsList">>,
         <<JStr(jurisdiction), JStr(evaluator_get_jurisdiction_name(jurisdiction)), JNum(0),
           JStr("error"), JStr("high"), JStr(error),
           JObj(<<"total", "met">>, <<JNum(0), JNum(0)>>), JArr(<<>>)>>)

Outcome(raised, error, result, compliance_text, evaluation_results, queried) ==
    [raised |-> raised, error |-> error, result |-> result,
     compliance_text |-> compliance_text, evaluation_results |-> evaluation_results,
     queried |-> queried]

\* lines 198-248: the try block and its handler
EvaluateQueried(self, jurisdiction, compliance_text, response) ==
    LET Failed(error) ==
            Outcome(FALSE, "", ErrorEntry(jurisdiction, error), compliance_text,
                    self.evaluation_results, TRUE)
        Done(compliance_data) ==
            Outcome(FALSE, "", compliance_data, compliance_text, compliance_data, TRUE)
        result == query_perplexity_api(response)
        json_str == ExtractJson(result.content)
        strict == json_loads(json_str.json_str)
        repaired == json_loads(Repair(json_str.json_str))
    IN IF result.raised THEN Failed("upstream")
       ELSE IF result.nochoice THEN Failed("list index out of range")
       ELSE IF ~json_str.ok THEN Failed("Could not extract JSON from the API response")
       ELSE IF strict.ok THEN Done(strict.v)
       ELSE IF repaired.ok THEN Done(repaired.v)
       ELSE Failed("JSONDecodeError")

\* evaluate_compliance(jurisdiction) on the evaluator self, where response is
\* what the upstream would answer.  The query is built before the try, so the
\* ValueError of its f-string leaves the method.
evaluate_compliance(self, jurisdiction, response) ==
    IF ~Truthy(self.company_data)
    THEN Outcome(TRUE, "No company data provided.", JNull, self.compliance_text,
                 self.evaluation_results, FALSE)
    ELSE LET compliance_content == generate_jurisdiction_compliance_text(jurisdiction)
             compliance_text ==
                 IF compliance_content # "" THEN compliance_content
                 ELSE self.compliance_text
         IN IF ~FStringOk(EvaluatorQueryFields)
            THEN Outcome(TRUE, "Invalid format specifier", JNull, compliance_text,
                         self.evaluation_results, FALSE)
            ELSE EvaluateQueried(self, jurisdiction, compliance_text, response)

---------------------------------------------------------------------------
(* query_perplexity_api: the two variants and their retries *)

\* What one POST of a call meets: "ok" (status 200 with a JSON body),
\* "throttled" (status 429), "error" (another status, such as 500), "network"
\* (requests.post raises a RequestException that is no HTTPError: a timeout,
\* a refused connection) or "notjson" (status 200 with a body that is no
\* JSON, so that response.json() raises).
Answers429 == {"ok", "throttled", "error", "network", "notjson"}

\* what an attempt comes to: the call goes on, returns or raises
Attempt(outcome, retry_count, slept, error) ==
    [outcome |-> outcome, retry_count |-> retry_count, slept |-> slept, error |-> error]

\* compliance_evaluator_perplexity.py:68-94: one activation of the method.  A
\* 429 sleeps 60 seconds and calls the method again, without a count.
RecursiveAttempt(answer, retry_count) ==
    CASE answer = "ok" -> Attempt("return", retry_count, <<>>, "")
      [] answer = "throttled" -> Attempt("continue", retry_count + 1, <<60>>, "")
      [] answer = "error" -> Attempt("raise", retry_count, <<>>, "HTTPError")
      [] answer = "network" -> Attempt("raise", retry_count, <<>>, "RequestException")
      [] answer = "notjson" -> Attempt("raise", retry_count, <<>>, "JSONDecodeError")

max_retries == 3

\* a backoff that grows linearly
Backoff429_Linear(retry_count) == 2 * retry_count

\* compliance_evaluator.py:464: wait_time = 2 ** retry_count
Backoff429(retry_count) == 2 ^ retry_count

\* one attempt more than max_retries
RetriesLeft_OneMore(retry_count) == retry_count <= max_retries

\* compliance_evaluator.py:448 and 483: retry_count < max_retries
RetriesLeft(retry_count) == retry_count < max_retries

\* compliance_evaluator.py:448-495: one iteration of the while loop, from the
\* POST to the next test of the loop condition.  json_error_retries says
\* whether the JSONDecodeError of response.json() is a RequestException (as
\* in requests 2.27 and later) or a plain ValueError.
LoopAttempt(answer, retry_count, json_error_retries) ==
    LET Throttled ==
            IF RetriesLeft(retry_count + 1)
            THEN Attempt("continue", retry_count + 1, <<Backoff429(retry_count + 1)>>, "")
            ELSE Attempt("raise", retry_count + 1, <<Backoff429(retry_count + 1)>>,
                         "Failed to get a valid response")
        Network(error) ==
            IF RetriesLeft(retry_count + 1)
            THEN Attempt("continue", retry_count + 1, <<(retry_count + 1) * 2>>, "")
            ELSE Attempt("raise", retry_count + 1, <<>>, error)
    IN CASE answer = "ok" -> Attempt("return", retry_count, <<>>, "")
         [] answer = "throttled" -> Throttled
         [] answer = "error" -> Attempt("raise", retry_count, <<>>, "HTTPError")
         [] answer = "network" -> Network("RequestException")
         [] answer = "notjson" ->
                IF json_error_retries THEN Network("JSONDecodeError")
                ELSE Attempt("raise", retry_count, <<>>, "JSONDecodeError")

---------------------------------------------------------------------------
(* compliance_evaluator.py: ocr_pdf, enhance_ocr_with_mistral,             *)
(* extract_text_from_pdf, summarize_with_mistral, analyze_documents        *)

\* A Python string is modelled by what the functions below look at: where it
\* comes from (k and of), its length (size) and whether strip() leaves
\* nothing of it (blank).  NoneText is Python's None.
Text(k, of, size, blank) == [k |-> k, of |-> of, size |-> size, blank |-> blank]

NoneText == Text("None", "", 0, TRUE)

EmptyStr == Text("str", "", 0, TRUE)

\* truth value of a string or None
TextTruthy(text) == text.k # "None" /\ text.size > 0

\* What one call of mistral_client.chat does: it returns a response whose
\* first choice has a message with content ("content"), with content ""
\* ("empty") or with content None ("none_content"), a response with an empty
\* list of choices ("no_choices"), a response without the attribute choices
\* ("no_attr"), a response whose choices is None ("none_choices"), or it
\* raises a TypeError ("type_error") or another exception ("raises").
ChatOutcomes ==
    {"content", "empty", "none_content", "no_choices", "no_attr", "none_choices",
     "raises", "type_error"}

\* lines 198, 342, 390: chat_response.choices[0].message.content of the older
\* format, inside try/except Exception; "failed" when it raises
OlderFormat(second) ==
    CASE second = "content" -> Text("mistral", "content", 9, FALSE)
      [] second = "empty" -> EmptyStr
      [] second = "none_content" -> NoneText
      [] OTHER -> Text("failed", "", 0, TRUE)

\* lines 138-205; first is the outcome of the chat call of the newer format,
\* second of the older format
enhance_ocr_with_mistral(mistral_client, first, second) ==
    IF ~mistral_client THEN NoneText
    ELSE CASE first = "content" -> Text("mistral", "content", 9, FALSE)
           [] first = "empty" -> EmptyStr
           [] first = "none_content" -> NoneText
           \* line 183: return str(chat_response)
           [] first \in {"no_choices", "no_attr"} -> Text("str(chat_response)", first, 16, FALSE)
           \* line 185: except (AttributeError, TypeError)
           [] first \in {"type_error", "none_choices"} ->
                  IF OlderFormat(second).k = "failed" THEN NoneText ELSE OlderFormat(second)
           \* line 203
           [] OTHER -> NoneText

\* What the OCR libraries do with a PDF: convert_from_bytes raises or returns
\* the page images; for a page, image.save raises ("save_fails"),
\* pytesseract raises ("tesseract_fails"), or pytesseract returns None or ""
\* ("nothing") or the words of the page ("words").
PageOutcomes == {"save_fails", "tesseract_fails", "nothing", "words"}

Scan(convert, pages) == [convert |-> convert, pages |-> pages]

RECURSIVE OcrPages(_, _)

\* lines 118-125: text += page_text + "\n" for each page, in order
OcrPages(pages, text) ==
    IF pages = <<>> THEN [raised |-> FALSE, text |-> text]
    ELSE IF Head(pages) \in {"save_fails", "tesseract_fails"}
    THEN [raised |-> TRUE, text |-> text]
    ELSE OcrPages(Tail(pages),
                  Text("ocr", "", text.size + (IF Head(pages) = "words" THEN 5 ELSE 0) + 1,
                       text.blank /\ Head(pages) # "words"))

\* lines 111-125: the body of the with statement
OcrBody(scan) ==
    IF ~scan.convert THEN [raised |-> TRUE, text |-> Text("ocr", "", 0, TRUE)]
    ELSE OcrPages(scan.pages, Text("ocr", "", 0, TRUE))

\* the directory stays when the body raised
ReleaseOnExit_OnlyOnSuccess(raised) == ~raised

\* line 113: with tempfile.TemporaryDirectory() removes the directory when the
\* block is left, by its end or by an exception
ReleaseOnExit(raised) == TRUE

\* lines 127-136: what ocr_pdf returns once the with block is left
OcrReturn(body, mistral_client, first, second) ==
    IF body.raised THEN EmptyStr
    ELSE LET enhanced_text == enhance_ocr_with_mistral(mistral_client, first, second)
         IN IF mistral_client /\ ~body.text.blank /\ TextTruthy(enhanced_text)
            THEN enhanced_text
            ELSE body.text

\* lines 100-136
ocr_pdf(scan, mistral_client, first, second) ==
    OcrReturn(OcrBody(scan), mistral_client, first, second)

\* What PyPDF2 does with the bytes of a PDF: PdfReader raises, or it gives
\* the pages; a page is the length of what its extract_text() returns, a text
\* that neither begins nor ends with white space (0 for None or "").
PyPdf(raises, pages) == [raises |-> raises, pages |-> pages]

RECURSIVE PagesLen(_)

\* lines 84-87: text += page_text + "\n" for each page
PagesLen(pages) ==
    IF pages = <<>> THEN 0 ELSE Head(pages) + 1 + PagesLen(Tail(pages))

\* len(text.strip()): the newlines of the empty pages at both ends and the
\* newline of the last page with text are stripped
StrippedLen(pages) ==
    LET with_text == {i \in 1..Len(pages) : pages[i] > 0}
        first_page == CHOOSE i \in with_text : \A j \in with_text : i <= j
        last_page == CHOOSE i \in with_text : \A j \in with_text : j <= i
    IN IF with_text = {} THEN 0
       ELSE PagesLen(SubSeq(pages, first_page, last_page)) - 1

\* line 90: PyPDF2 text shorter than this is read again by OCR
MinPdfText == 100

\* line 90
TooShort(pages) == StrippedLen(pages) < MinPdfText

\* lines 71-98; pdf_content.pypdf says what PyPDF2 does with the bytes and
\* pdf_content.scan what the OCR libraries do
extract_text_from_pdf(pdf_content, mistral_client, first, second) ==
    IF pdf_content.pypdf.raises \/ TooShort(pdf_content.pypdf.pages)
    THEN ocr_pdf(pdf_content.scan, mistral_client, first, second)
    ELSE Text("pypdf", pdf_content.of, PagesLen(pdf_content.pypdf.pages), FALSE)

\* A text of several strings, one after the other
RECURSIVE TextLen(_)

TextLen(all_text) ==
    IF all_text = <<>> THEN 0 ELSE Head(all_text).size + TextLen(Tail(all_text))

\* lines 277-401, for a text of more than one chunk of 8000 characters, with
\* every chat call of the newer format answering first and every one of the
\* older format second
summarize_with_mistral(text, mistral_client, first, second) ==
    LET older == OlderFormat(second)
        \* lines 311-345: what a chunk appends to summaries ("-": nothing)
        appended ==
            CASE first = "content" -> Text("mistral", "content", 9, FALSE)
              [] first = "empty" -> EmptyStr
              [] first = "none_content" -> NoneText
              [] first \in {"no_choices", "no_attr"} -> Text("-", "", 0, TRUE)
              [] OTHER -> IF older.k = "failed"
                          THEN Text("str", "Error summarizing chunk", 40, FALSE)
                          ELSE older
        \* line 349: "\n\n".join(summaries)
        combined_summary == Text("joined", appended.of, 2 * appended.size + 2, appended.blank)
    IN IF ~mistral_client THEN NoneText
       ELSE IF appended.k = "-" THEN NoneText           \* line 397
       ELSE IF appended.k = "None" THEN NoneText        \* join raises, line 399
       ELSE CASE first = "content" -> Text("mistral", "content", 9, FALSE)
              [] first = "empty" -> EmptyStr
              [] OTHER -> IF older.k = "failed" THEN combined_summary ELSE older

\* A document of the list: a dict (dict) with a file_name, a name and its
\* extension or None, and a content, or something that is not a dict.  The
\* content is absent or empty (t = "none"), a str that starts with "data:"
\* (t = "data"; comma: it has a comma; b64: what follows decodes), another
\* str (t = "str"; b64: it decodes) or bytes (t = "bytes").
Upload(dict, file_name, content) == [dict |-> dict, file_name |-> file_name, content |-> content]

UploadContent(t, comma, b64, of, size, pypdf, scan) ==
    [t |-> t, comma |-> comma, b64 |-> b64, of |-> of, size |-> size, pypdf |-> pypdf, scan |-> scan]

\* the value of file_name: a str, None, or no value yet
FileName(stem, ext) == [v |-> "str", stem |-> stem, ext |-> ext]

NoneName == [v |-> "None", stem |-> "", ext |-> ""]

Unbound == [v |-> "unbound", stem |-> "", ext |-> ""]

\* file_name.lower().endswith(...)
LowerExt(ext) ==
    CASE ext = ".PDF" -> ".pdf"
      [] ext = ".TXT" -> ".txt"
      [] OTHER -> ext

\* f"\n\n--- Document: {file_name} ---\n\n"
DocumentHeader(file_name) ==
    IF file_name.v = "None" THEN Text("header", "None", 26, FALSE)
    ELSE Text("header", file_name.stem \o file_name.ext,
              22 + Len(file_name.stem) + Len(file_name.ext), FALSE)

\* lines 223-264: the body of the loop for one document; file_name is the
\* value of the local variable before the iteration (Unbound in the first).
\* The result gives the text added to all_text, the variable afterwards and
\* the exception that leaves the function ("" when none does).
AnalyzeOne(doc, file_name, mistral_client, first, second) ==
    LET Skip(name) == [added |-> <<>>, file_name |-> name, raised |-> ""]
        Add(name, text) == [added |-> <<DocumentHeader(name), text>>, file_name |-> name, raised |-> ""]
        content == doc.content
        name == doc.file_name
    IN IF ~doc.dict
       \* doc.get raises; line 264 reads file_name
       THEN IF file_name.v = "unbound"
            THEN [added |-> <<>>, file_name |-> file_name, raised |-> "UnboundLocalError"]
            ELSE Skip(file_name)
       ELSE IF content.t = "none" THEN Skip(name)
       ELSE IF content.t = "data" /\ (~content.comma \/ content.b64 # "ok") THEN Skip(name)
       \* lines 238-242: not base64, taken as plain text
       ELSE IF content.t = "str" /\ content.b64 # "ok"
       THEN Add(name, Text("content", content.of, content.size, FALSE))
       \* lines 247, 252: file_name.lower() of None raises
       ELSE IF name.v = "None" THEN Skip(name)
       ELSE IF LowerExt(name.ext) = ".pdf"
       THEN Add(name, extract_text_from_pdf(content, mistral_client, first, second))
       ELSE IF LowerExt(name.ext) \in {".txt", ".md", ".csv"}
       THEN Add(name, Text("decoded", content.of, content.size, content.size = 0))
       ELSE Skip(name)

RECURSIVE AnalyzeLoop(_, _, _, _, _, _)

\* lines 220-264
AnalyzeLoop(documents, file_name, all_text, mistral_client, first, second) ==
    IF documents = <<>> THEN [raised |-> "", all_text |-> all_text]
    ELSE LET one == AnalyzeOne(Head(documents), file_name, mistral_client, first, second)
         IN IF one.raised # "" THEN [raised |-> one.raised, all_text |-> all_text]
            ELSE AnalyzeLoop(Tail(documents), one.file_name, all_text \o one.added,
                             mistral_client, first, second)

\* line 267: len(all_text) > 10000
SummaryThreshold == 10000

\* lines 207-275
analyze_documents(documents, mistral_client, first, second) ==
    LET loop == AnalyzeLoop(documents, Unbound, <<>>, mistral_client, first, second)
        all_text == loop.all_text
        summary == summarize_with_mistral(all_text, mistral_client, first, second)
    IN IF loop.raised # "" THEN loop
       ELSE IF TextLen(all_text) > SummaryThreshold /\ mistral_client /\ TextTruthy(summary)
       THEN [raised |-> "",
             all_text |-> <<Text("str", "# Document Summary", 20, FALSE), summary,
                            Text("str", "# Full Document Text", 24, FALSE)>> \o all_text]
       ELSE loop

---------------------------------------------------------------------------
(* compliance_evaluator.py: evaluate_compliance(company_data, documents) *)

\* lines 642-658: the calls inside the try block, in the order of the code
Stages ==
    <<"query_perplexity_api", "process_markdown_content", "generate_summary",
      "extract_risk_assessments", "extract_recommendations", "extract_requirements",
      "extract_regulatory_references">>

\* What query_perplexity_api gives: it raises, or it returns a body whose
\* first choice has a message with a Markdown content ("content") or with
\* content None ("none_content"), a body without choices, for which the
\* default [{}] gives the content '' ("no_choices_key"), or a body whose
\* choices is an empty list ("no_choices").
QueryAnswers ==
    {"content", "cited", "sections", "report", "titled", "dated", "none_content",
     "no_choices_key", "no_choices", "raises"}

\* lines 642-645: result = self.query_perplexity_api(query) and the content
\* taken from it; "raised" when one of the two raises
QueriedContent(answer) ==
    CASE answer = "content" -> Text("markdown", "content", 60, FALSE)
      [] answer = "cited" -> Text("markdown", "cited", 63, FALSE)
      [] answer = "sections" -> Text("markdown", "sections", 66, FALSE)
      [] answer = "report" -> Text("markdown", "report", 129, FALSE)
      [] answer = "titled" -> Text("markdown", "titled", 38, FALSE)
      [] answer = "dated" -> Text("markdown", "dated", 61, FALSE)
      [] answer = "none_content" -> NoneText
      [] answer = "no_choices_key" -> EmptyStr
      [] OTHER -> Text("raised", answer, 0, TRUE)

\* whether the stage raises for the content: content.startswith of line 921
\* needs a str; the later stages get the str that process_markdown_content
\* returned
StageRaises(stage, content) ==
    \/ stage = "query_perplexity_api" /\ content.k = "raised"
    \/ stage = "process_markdown_content" /\ content.k = "None"

\* A Markdown text as process_markdown_content sees it: its length, whether
\* it starts with "# Financial Compliance Evaluation" (titled), how many times
\* it has the title line, an empty line, the "**Date**:" line and an empty
\* line (dated), whether it has a References heading and a summary heading,
\* and its links to http(s) URLs: the lengths of the text and of the URL of
\* each, and whether the domain is one of a government; and how many more of
\* the places counted by dated it has once a text that begins with an empty
\* line is put after it (trailing: 1 for a text that ends with the title line,
\* an empty line and the "**Date**:" line, else 0).
Markdown(size, titled, dated, references, summary, citations, trailing) ==
    [size |-> size, titled |-> titled, dated |-> dated, references |-> references,
     summary |-> summary, citations |-> citations, trailing |-> trailing]

Citation(text, url, gov) == [text |-> text, url |-> url, gov |-> gov]

\* the Markdown of the answers of the model
AnsweredMarkdown(of) ==
    CASE of = "content" -> Markdown(60, FALSE, 0, FALSE, FALSE, <<>>, 0)
      [] of = "cited" -> Markdown(63, FALSE, 0, FALSE, FALSE,
                                  <<Citation(3, 21, TRUE), Citation(4, 17, FALSE)>>, 0)
      [] of = "sections" -> Markdown(66, FALSE, 0, TRUE, TRUE, <<>>, 0)
      [] of = "report" -> Markdown(129, TRUE, 1, TRUE, TRUE, <<>>, 0)
      [] of = "titled" -> Markdown(38, TRUE, 0, FALSE, FALSE, <<>>, 0)
      [] of = "dated" -> Markdown(61, TRUE, 0, FALSE, FALSE, <<>>, 1)
      [] OTHER -> Markdown(0, FALSE, 0, FALSE, FALSE, <<>>, 0)

\* len("# Financial Compliance Evaluation for \n\n**Date**: YYYY-MM-DD\n\n")
HeaderLen == 62

\* len("\n\n## References\n\n")
ReferencesLen == 17

\* len(" - Official Government Source")
GovernmentLen == 29

\* the length of the Executive Summary paragraph without the company's name
SummaryLen == 230

\* len(str(i))
Digits(i) == IF i < 10 THEN 1 ELSE 2

RECURSIVE ReferenceLines(_, _)

\* lines 935-947: the length of the numbered references from the i-th on,
\* each "{i}. [{text}]({url})" with its newline
ReferenceLines(citations, i) ==
    IF i > Len(citations) THEN 0
    ELSE Digits(i) + 7 + citations[i].text + citations[i].url
             + (IF citations[i].gov THEN GovernmentLen ELSE 0)
             + ReferenceLines(citations, i + 1)

\* lines 908-958: the header is put before a text without the title (lines
\* 921-924), the References section after a text without one (lines 931-948)
\* and the Executive Summary after every title and Date line with an empty
\* line after it, of the text as it then is (lines 951-956)
process_markdown_content(content, company_name) ==
    LET headed ==
            IF content.titled THEN content
            ELSE [content EXCEPT !.size = @ + HeaderLen + Len(company_name),
                                 !.titled = TRUE, !.dated = @ + 1]
        referenced ==
            IF headed.references THEN headed
            ELSE [headed EXCEPT !.size = @ + ReferencesLen
                                             + ReferenceLines(headed.citations, 1),
                                !.references = TRUE,
                                !.dated = @ + headed.trailing, !.trailing = 0]
    IN IF referenced.summary THEN referenced
       ELSE [referenced EXCEPT
                !.size = @ + referenced.dated * (SummaryLen + Len(company_name)),
                !.summary = referenced.dated > 0]

---------------------------------------------------------------------------
(* compliance_evaluator.py: extract_requirements(content) *)

\* Markdown is modelled as a sequence of lines.  A line has a kind k ("h2req":
\* a heading "## Requirements" or one of its synonyms; "h2": another "## " or
\* "# " heading; "bullet": "- text", "* text" or "1. text"; "text": a sentence
\* that ends with a period), its text (for a bullet, the text after the
\* marker) and what the regular expressions of the function find in the text:
\* met and partial (the two status patterns), cat (the first category word,
\* "" when none), risk ("high", "low", "" when neither pattern matches), link
\* (the title of a Markdown link to an http(s) URL, "") and mention (the words
\* that follow "under", "according to", "compliant with", "compliance with" or
\* "regulated by" up to the period, "-" when the line has no such phrase).
MdLine(k, text, met, partial, cat, risk, link, mention) ==
    [k |-> k, text |-> text, met |-> met, partial |-> partial, cat |-> cat,
     risk |-> risk, link |-> link, mention |-> mention]

\* item[:50] + "..." if len(item) > 50 else item
Title(text) == [of |-> text, cut |-> Len(text) > 50]

Requirement(i, text, category, status, risk, has_references, references) ==
    [id |-> i, title |-> Title(text), description |-> text, category |-> category,
     status |-> status, risk |-> risk, has_references |-> has_references,
     regulatoryReferences |-> references]

\* the pattern of "partial" is tried first
StatusOf_PartialFirst(item) ==
    IF item.partial THEN "partial" ELSE IF item.met THEN "met" ELSE "not-met"

\* lines 1142-1146: the status of a bullet
StatusOf(item) ==
    IF item.met THEN "met" ELSE IF item.partial THEN "partial" ELSE "not-met"

\* lines 1141-1184: the requirement made of the i-th bullet
ItemRequirement(i, item) ==
    Requirement(i, item.text,
                IF item.cat = "" THEN "General" ELSE item.cat,
                StatusOf(item),
                IF item.risk = "" THEN "medium" ELSE item.risk,
                TRUE,
                IF item.link = "" THEN <<>> ELSE <<[id |-> i, title |-> item.link]>>)

\* lines 1190-1197 and 1207-1214
PlainRequirement(i, text) ==
    Requirement(i, text, "General", "not-met", "medium", FALSE, <<>>)

Indexed(seq) == [i \in 1..Len(seq) |-> [i |-> i, text |-> seq[i]]]

RECURSIVE SplitSentences(_, _, _)

\* re.split(r'(?<=[.!?])\s+', req_text): a line that does not end a sentence
\* (a heading, a bullet) runs on into the next line; the split of the empty
\* text is one empty fragment
SplitSentences(lines, open, acc) ==
    IF lines = <<>> THEN (IF open = "" /\ acc # <<>> THEN acc ELSE Append(acc, open))
    ELSE LET text == IF open = "" THEN Head(lines).text
                     ELSE open \o "\n" \o Head(lines).text
         IN IF Head(lines).k = "text"
            THEN SplitSentences(Tail(lines), "", Append(acc, text))
            ELSE SplitSentences(Tail(lines), text, acc)

\* lines 1129-1133: the lines of the requirements section, <<>> when there is
\* none.  The section runs from the line after the heading to the next "## "
\* or "# " heading; the \s* of the pattern takes the newline after the
\* heading, so a heading on the very next line does not end the section but
\* belongs to it.
HasSection(content) == \E i \in 1..Len(content) : content[i].k = "h2req"

SectionText(content) ==
    LET heads == {i \in 1..Len(content) : content[i].k = "h2req"}
        head == CHOOSE i \in heads : \A j \in heads : i <= j
        ends == {i \in 1..Len(content) : i > head + 1 /\ content[i].k \in {"h2req", "h2"}}
        end == IF ends = {} THEN Len(content) + 1
               ELSE CHOOSE i \in ends : \A j \in ends : i <= j
    IN IF HasSection(content) THEN SubSeq(content, head + 1, end - 1) ELSE <<>>

\* lines 1136-1184: the requirements made of the bullets and numbered items
FromItems(req_text) ==
    LET IsItem(line) == line.k = "bullet"
        req_items == SelectSeq(req_text, IsItem)
    IN [i \in 1..Len(req_items) |-> ItemRequirement(i, req_items[i])]

\* lines 1187-1197: the requirements made of the sentences of the section
FromSentences(req_text) ==
    LET IsLong(e) == Len(e.text) > 10
        sentences == SelectSeq(Indexed(SplitSentences(req_text, "", <<>>)), IsLong)
    IN [n \in 1..Len(sentences) |-> PlainRequirement(sentences[n].i, sentences[n].text)]

\* lines 1202-1214: the requirements made of the regulations that the whole
\* document mentions
FromMentions(content) ==
    LET IsLong(e) == Len(e.text) > 10
        HasMention(line) == line.mention # "-"
        Mention(lines) == [i \in 1..Len(lines) |-> lines[i].mention]
        reg_mentions == SelectSeq(Indexed(Mention(SelectSeq(content, HasMention))), IsLong)
    IN [n \in 1..Len(reg_mentions) |->
           PlainRequirement(reg_mentions[n].i, reg_mentions[n].text)]

\* the phrase scan adds to what the section gave
Fallback_Mixed(requirements, from_mentions) == requirements \o from_mentions

\* line 1200: if not requirements
Fallback(requirements, from_mentions) ==
    IF requirements = <<>> THEN from_mentions ELSE requirements

\* lines 1116-1218
extract_requirements(content) ==
    LET req_text == SectionText(content)
        from_section ==
            IF ~HasSection(content) THEN <<>>
            ELSE IF FromItems(req_text) # <<>> THEN FromItems(req_text)
            ELSE FromSentences(req_text)
    IN Fallback(from_section, FromMentions(content))

---------------------------------------------------------------------------
(* compliance_evaluator.py: get_issuer_from_url(url) *)

\* A domain is modelled as a sequence of pieces, the dots between its labels
\* among them: "www.irs.gov" is <<"www", ".", "irs", ".", "gov">>.  A label
\* that only starts like another is cut in two ("government" is "gov" and
\* "ernment"), so that `key in domain` is: the pieces of key appear in the
\* domain one after the other.
Infix(key, domain) ==
    \E i \in 0..(Len(domain) - Len(key)) : SubSeq(domain, i + 1, i + Len(key)) = key

RECURSIVE Join(_)

\* the string that the pieces spell
Join(pieces) == IF pieces = <<>> THEN "" ELSE Head(pieces) \o Join(Tail(pieces))

\* lines 1309-1327: issuer_map, in the order of the dict
IssuerMap ==
    << [key |-> <<"sec", ".", "gov">>, value |-> "Securities and Exchange Commission"],
       [key |-> <<"consumerfinance", ".", "gov">>,
        value |-> "Consumer Financial Protection Bureau"],
       [key |-> <<"fdic", ".", "gov">>, value |-> "Federal Deposit Insurance Corporation"],
       [key |-> <<"fca", ".", "org", ".", "uk">>, value |-> "Financial Conduct Authority"],
       [key |-> <<"fca", ".", "gov", ".", "uk">>, value |-> "Financial Conduct Authority"],
       [key |-> <<"bankofengland", ".", "co", ".", "uk">>, value |-> "Bank of England"],
       [key |-> <<"gov", ".", "uk">>, value |-> "UK Government"],
       [key |-> <<"europa", ".", "eu">>, value |-> "European Union"],
       [key |-> <<"esma", ".", "europa", ".", "eu">>,
        value |-> "European Securities and Markets Authority"],
       [key |-> <<"ec", ".", "europa", ".", "eu">>, value |-> "European Commission"],
       [key |-> <<"eba", ".", "europa", ".", "eu">>, value |-> "European Banking Authority"],
       [key |-> <<"mas", ".", "gov", ".", "sg">>, value |-> "Monetary Authority of Singapore"],
       [key |-> <<"acra", ".", "gov", ".", "sg">>,
        value |-> "Accounting and Corporate Regulatory Authority"],
       [key |-> <<"pdpc", ".", "gov", ".", "sg">>,
        value |-> "Personal Data Protection Commission"],
       [key |-> <<"asic", ".", "gov", ".", "au">>,
        value |-> "Australian Securities and Investments Commission"],
       [key |-> <<"apra", ".", "gov", ".", "au">>,
        value |-> "Australian Prudential Regulation Authority"],
       [key |-> <<"oaic", ".", "gov", ".", "au">>,
        value |-> "Office of the Australian Information Commissioner"] >>

\* str.upper() of a piece
UpperPiece(piece) ==
    CASE piece = "www" -> "WWW"
      [] piece = "irs" -> "IRS"
      [] piece = "sec" -> "SEC"
      [] piece = "gov" -> "GOV"
      [] piece = "uk" -> "UK"
      [] piece = "ernment" -> "ERNMENT"
      [] piece = "com" -> "COM"
      [] OTHER -> piece

\* domain.split('.')[0]: the pieces before the first dot
FirstPart(domain) ==
    LET dots == {i \in 1..Len(domain) : domain[i] = "."}
    IN IF dots = {} THEN domain
       ELSE SubSeq(domain, 1, (CHOOSE i \in dots : \A j \in dots : i <= j) - 1)

\* len(domain.split('.'))
PartCount(domain) == Cardinality({i \in 1..Len(domain) : domain[i] = "."}) + 1

\* line 1337: if len(parts) >= 3
AgencyParts == 3

\* lines 1329-1343: the issuer of a domain
IssuerOfDomain(domain) ==
    LET hits == {i \in 1..Len(IssuerMap) : Infix(IssuerMap[i].key, domain)}
    IN IF hits # {}
       THEN IssuerMap[CHOOSE i \in hits : \A j \in hits : i <= j].value
       ELSE IF Infix(<<".", "gov">>, domain)
       THEN IF PartCount(domain) >= AgencyParts
            THEN Join([i \in 1..Len(FirstPart(domain)) |-> UpperPiece(FirstPart(domain)[i])])
                     \o " - Government Agency"
            ELSE "Government Agency"
       ELSE Join(domain)

\* A URL is what url.split('/') makes of it, a sequence of domains and other
\* strings between slashes, or it is not a str (str = FALSE).
Url(str, segments) == [str |-> str, segments |-> segments]

\* lines 1295-1347
get_issuer_from_url(url) ==
    IF ~url.str \/ Len(url.segments) < 3 THEN "Unknown Issuer"
    ELSE IssuerOfDomain(url.segments[3])

---------------------------------------------------------------------------
(* The inputs of the model *)

Profile1 == JObj(<<"companyName", "industry">>, <<JStr("Acme"), JStr("Finance")>>)

Body(api_key, company_profile, jurisdiction) ==
    JObj(<<"apiKey", "companyProfile", "jurisdiction">>,
         <<api_key, company_profile, jurisdiction>>)

ValidRequests ==
    {Req("json", Body(JStr("k1"), Profile1, JStr(j))) : j \in {"us", "xx"}}
        \cup {Req("json", Body(JStr("k2"), Profile1, JStr("us")))}

InvalidRequests ==
    {Req("absent", JNull),
     Req("json", JNull),
     Req("json", JObj(<<>>, <<>>)),
     Req("json", JArr(<<JNum(1)>>)),
     Req("json", JObj(<<"companyProfile", "jurisdiction">>, <<Profile1, JStr("us")>>)),
     Req("json", Body(JStr(""), Profile1, JStr("us"))),
     Req("json", JObj(<<"apiKey", "jurisdiction">>, <<JStr("k1"), JStr("us")>>)),
     Req("json", Body(JStr("k1"), JObj(<<>>, <<>>), JStr("us"))),
     Req("json", JObj(<<"apiKey", "companyProfile">>, <<JStr("k1"), Profile1>>)),
     Req("json", Body(JStr("k1"), Profile1, JStr(""))),
     Req("json", Body(JStr("k1"), JStr("Acme"), JStr("us")))}

Requests == ValidRequests \cup InvalidRequests

DocBody(doc_type) ==
    JObj(<<"apiKey", "jurisdiction", "docType", "companyProfile">>,
         <<JStr("k1"), JStr("us"), doc_type, Profile1>>)

\* the answers of the LLM to an analysis prompt
GoodObject ==
    <<TOpen, TKey("status"), TStr("compliant"), TKey("riskLevel"), TStr("low"),
      TKey("complianceScore"), TNum(85),
      TKey("requirements"), TOpen, TKey("total"), TNum(12), TKey("met"), TNum(8), TClose,
      TKey("requirementsList"), TLbr,
          TOpen, TKey("status"), TStr("met"), TClose,
          TOpen, TKey("status"), TStr("partial"), TClose, TRbr,
      TClose>>

Contents ==
    {<<TProse>> \o GoodObject \o <<TProse>>,
     <<TOpen, TKey("complianceScore"), TNum(150), TKey("status"), TStr("compliant"),
       TKey("riskLevel"), TStr("low"), TClose>>,
     <<TOpen, TKey("complianceScore"), TNum(85), TKey("status"), TStr("non-compliant"),
       TKey("riskLevel"), TStr("high"), TClose>>,
     <<TLbr, TNum(1), TRbr>>,
     <<TLbr, TRbr>>,
     <<TProse>>,
     <<TProse, TOpen, TProse, TClose>>,
     <<TClose, TProse, TOpen>>,
     <<TOpen, TKey("requirementsList"), TNum(5), TClose>>,
     <<TOpen, TKey("requirementsList"), TLbr, TStr("met"), TRbr, TClose>>,
     <<TOpen, TClose>>}

Failures ==
    {Resp(TRUE, 0, "none", <<>>),
     Resp(FALSE, 500, "content", <<TProse>>),
     Resp(FALSE, 200, "notjson", <<>>),
     Resp(FALSE, 200, "nochoice", <<>>),
     Resp(FALSE, 200, "content", <<>>)}

Answers == Failures \cup {Resp(FALSE, 200, "content", c) : c \in Contents}

\* the requests for a document that have every field
ValidDocRequests ==
    {Req("json", DocBody(JStr("summary"))),
     Req("json", Body(JStr("k1"), Profile1, JStr("xx")))}

\* the requests of the threads that race on one key of document_cache
RacedDocRequests ==
    {Req("json", DocBody(JStr("summary"))),
     Req("absent", JNull),
     Req("json", Body(JStr(""), Profile1, JStr("us")))}

\* the formats and the bodies of the requests to /export-report/<format>
Formats == {"pdf", "csv", "docx"}

ReportData == LoadsOrNone(GoodObject)

ReportRequests ==
    {Req("json", JObj(<<>>, <<>>)),
     Req("json", JObj(<<"data">>, <<JObj(<<"requirementsList">>, <<JNull>>)>>)),
     Req("json", JObj(<<"data">>, <<ReportData>>))}

DocAnswers ==
    {Resp(TRUE, 0, "none", <<>>),
     Resp(FALSE, 500, "content", <<TProse>>),
     Resp(FALSE, 200, "content", <<>>),
     Resp(FALSE, 200, "content", <<TProse>>)}

\* the answers to the document prompt of the server as a whole
ServerDocAnswers ==
    {Resp(FALSE, 500, "content", <<TProse>>),
     Resp(FALSE, 200, "content", <<TProse>>)}

\* the values a test double of get_compliance_from_perplexity returns: what
\* json.loads gives for the answers above, and None
DoubleReturns == {ParseAnswer(response) : response \in Answers}

\* the constructor arguments and the calls of the evaluator
CompanyData == {Profile1, JNull}

ComplianceDocs == {"", "DOCS"}

EvaluatorJurisdictions == {"us", "in", "India", "xx"}

EvaluatorAnswers ==
    {Resp(TRUE, 0, "none", <<>>),
     Resp(FALSE, 500, "content", <<TProse>>),
     Resp(FALSE, 200, "nochoice", <<>>),
     Resp(FALSE, 200, "content", <<TProse>>),
     Resp(FALSE, 200, "content", <<TProse, TFence>> \o GoodObject \o <<TFenceEnd>>),
     Resp(FALSE, 200, "content",
          <<TFence>> \o GoodObject \o <<TFence, TOpen, TClose, TFenceEnd>>),
     Resp(FALSE, 200, "content", <<TOpen, TKey("status"), TSq("error"), TClose>>)}

\* the lines of a Markdown answer
Lines ==
    {MdLine("h2req", "## Requirements", FALSE, FALSE, "", "", "", "-"),
     MdLine("h2", "## Summary", FALSE, FALSE, "", "", "", "-"),
     MdLine("bullet", "Tax returns are filed every year and the process is fully implemented",
            TRUE, FALSE, "Tax", "", "", "-"),
     MdLine("bullet", "partially compliant, high risk, see [GDPR](https://gdpr.eu)",
            TRUE, TRUE, "", "high", "GDPR", "-"),
     MdLine("bullet", "AML", FALSE, FALSE, "AML", "", "", "-"),
     MdLine("bullet", "KYC checks are in progress, low risk", FALSE, TRUE, "KYC", "low", "", "-"),
     MdLine("text", "The company must keep records.", FALSE, FALSE, "", "", "", "-"),
     MdLine("text", "See below.", FALSE, FALSE, "", "", "", "-"),
     MdLine("text", "It is regulated by the Securities Act.", FALSE, FALSE, "", "", "",
            "the Securities Act"),
     MdLine("text", "Filed under SEC.", FALSE, FALSE, "", "", "", "SEC")}

RECURSIVE SeqsUpTo(_, _)

SeqsUpTo(S, n) ==
    IF n = 0 THEN {<<>>}
    ELSE LET shorter == SeqsUpTo(S, n - 1)
         IN shorter \cup {Append(q, x) : q \in {r \in shorter : Len(r) = n - 1}, x \in S}

MarkdownContents == SeqsUpTo(Lines, MaxLines)

\* the threads of the server that handle requests at the same time
\* what the OCR libraries do with the PDFs handed to ocr_pdf
Scans == {Scan(FALSE, <<>>)} \cup {Scan(TRUE, pages) : pages \in SeqsUpTo(PageOutcomes, MaxPages)}

\* the Mistral client of the evaluator and what its chat calls do: no client,
\* or a client with the outcome of the newer and of the older call format
MistralDoubles ==
    {[mistral_client |-> FALSE, first |-> "raises", second |-> "raises"]} \cup
    {[mistral_client |-> TRUE, first |-> first, second |-> second] :
        first \in ChatOutcomes, second \in {"content", "raises"}}

PyPdfFails == PyPdf(TRUE, <<>>)

NoContent == UploadContent("none", FALSE, "ok", "", 0, PyPdfFails, Scan(FALSE, <<>>))

Base64Text(of, size) == UploadContent("str", FALSE, "ok", of, size, PyPdfFails, Scan(FALSE, <<>>))

\* the documents of the lists handed to analyze_documents
Uploads ==
    { Upload(FALSE, NoneName, NoContent),
      Upload(TRUE, FileName("notes", ".txt"), NoContent),
      Upload(TRUE, FileName("notes", ".txt"), Base64Text("notes", 9)),
      Upload(TRUE, FileName("LEDGER", ".TXT"), Base64Text("ledger", 6000)),
      Upload(TRUE, FileName("memo", ".txt"),
             UploadContent("str", FALSE, "bad", "memo", 11, PyPdfFails, Scan(FALSE, <<>>))),
      Upload(TRUE, FileName("form", ".txt"),
             UploadContent("data", FALSE, "ok", "form", 9, PyPdfFails, Scan(FALSE, <<>>))),
      Upload(TRUE, FileName("policy", ".pdf"),
             UploadContent("data", TRUE, "ok", "policy", 6000,
                           PyPdf(FALSE, <<6000>>), Scan(FALSE, <<>>))),
      Upload(TRUE, FileName("brief", ".pdf"),
             UploadContent("bytes", FALSE, "ok", "brief", 50,
                           PyPdf(FALSE, <<0, 99>>), Scan(TRUE, <<"words">>))),
      Upload(TRUE, FileName("broken", ".pdf"),
             UploadContent("bytes", FALSE, "ok", "broken", 50, PyPdfFails, Scan(FALSE, <<>>))),
      Upload(TRUE, FileName("scan", ".pdf"),
             UploadContent("bytes", FALSE, "ok", "scan", 50,
                           PyPdf(FALSE, <<0>>), Scan(TRUE, <<"words">>))),
      Upload(TRUE, FileName("image", ".bin"), Base64Text("image", 9)),
      Upload(TRUE, NoneName, Base64Text("unnamed", 9)) }

UploadLists == SeqsUpTo(Uploads, MaxDocs)

\* the documents handed to evaluate_compliance: none, or one
\* company_data['companyName']
CompanyNames == {"", "Acme Ltd"}

EvaluatedDocuments == {<<>>} \cup {<<doc>> : doc \in Uploads}

\* the pieces of the domains of the URLs
Pieces == {"www", "irs", "sec", "gov", "ernment", "com", "uk", "."}

Domains == SeqsUpTo(Pieces, MaxPieces)

\* the URLs handed to get_issuer_from_url: "https://<domain>/doc", a URL
\* without scheme, "<domain>/doc", and None
Urls ==
    {Url(FALSE, <<>>)}
        \cup {Url(TRUE, <<<<"https:">>, <<>>, domain, <<"doc">>>>) : domain \in Domains}
        \cup {Url(TRUE, <<domain, <<"doc">>>>) : domain \in {<<"irs", ".", "gov">>}}

Threads == {"t1", "t2"}

\* the key the threads race on
RaceKey == AnalysisKey(JStr("us"), Profile1)

\* what the test double returns to the threads: every value the client can
\* return for an answer, None and the values that are no analysis among them
RaceReturns == DoubleReturns

\* what the test double returns to the requests of the server as a whole:
\* None, an analysis, and a value that is no analysis
ServerReturns ==
    {JNull, LoadsOrNone(GoodObject), LoadsOrNone(<<TLbr, TNum(1), TRbr>>)}

\* the instants at which requests arrive: around the multiples of a TTL
Instants(ttl) == {k * ttl - d : k \in 0..MaxPeriods, d \in {0, 1}} \cap Nat

---------------------------------------------------------------------------
(* The server: state and requests *)

Last(ep, req, status, error, report, pdf, invoked, response, compliance_data, cache_key) ==
    [ep |-> ep, req |-> req, at |-> now, status |-> status, error |-> error,
     report |-> report, pdf |-> pdf, invoked |-> invoked, response |-> response,
     compliance_data |-> compliance_data, cache_key |-> cache_key]

EmptyCache == [k \in {} |-> 0]

\* the evaluator (self) and its last call of evaluate_compliance
Evaluator(company_data, compliance_text, evaluation_results) ==
    [company_data |-> company_data, compliance_text |-> compliance_text,
     evaluation_results |-> evaluation_results]

EvIdle ==
    [pc |-> "new", self |-> Evaluator(JNull, "", JNull), before |-> Evaluator(JNull, "", JNull),
     compliance_docs |-> "", jurisdiction |-> "", response |-> NoResp,
     out |-> Outcome(FALSE, "", JNull, "", JNull, FALSE)]

ExIdle == [done |-> FALSE, content |-> <<>>, requirements |-> <<>>]

\* a call of query_perplexity_api: the variant ("recursive" or "loop"), where
\* it is ("idle", "posting", "returned", "raised"), the answers its POSTs met,
\* the seconds it slept and the error it raised
QpIdle ==
    [pc |-> "idle", variant |-> "", seen |-> <<>>, retry_count |-> 0, sleeps |-> <<>>,
     error |-> ""]

\* a thread of the server inside export_regulatory_doc: pc is "idle" (no
\* request), "hit" (line 211 was true, line 213 is next) or "miss" (line 211
\* was false, the thread waits in get_regulatory_document, line 216)
ExpThreadIdle ==
    [pc |-> "idle", req |-> Req("absent", JNull), cache_key |-> "", current_time |-> 0,
     found |-> -1]

\* the threads, and of the request answered last the clock it read at line
\* 210 and the timestamp of the entry it found at line 211 (-1 for none)
ExpIdle == [th |-> [t \in Threads |-> ExpThreadIdle], current_time |-> 0, found |-> -1]

\* a call of a helper function: its name, its arguments and what it returns
FnIdle == [op |-> "", arg |-> <<>>, result |-> <<>>]

\* a call of ocr_pdf, analyze_documents or evaluate_compliance: its inputs,
\* its position, the temporary directory of ocr_pdf ("none", "exists",
\* "removed"), what the with block did, what the call returns (result for a
\* string, all_text for the text of the documents), the exception that
\* leaves it and the stages of evaluate_compliance that have run
IngIdle ==
    [pc |-> "idle", op |-> "", scan |-> Scan(FALSE, <<>>), documents |-> <<>>,
     mistral |-> [mistral_client |-> FALSE, first |-> "raises", second |-> "raises"],
     temp_dir |-> "none", body |-> [raised |-> FALSE, text |-> EmptyStr],
     result |-> NoneText, all_text |-> <<>>, raised |-> "", stages |-> <<>>,
     company_name |-> ""]

InitServer ==
    /\ now = 0
    /\ calls = 0
    /\ stored_analysis_results = EmptyCache
    /\ document_cache = EmptyCache
    /\ prev_stored = EmptyCache
    /\ prev_docs = EmptyCache
    /\ last = Last("none", Req("absent", JNull), 0, "", ReportNone, NoPdf, FALSE, NoResp,
                   JNull, "")

\* a thread of the server inside analyze_compliance: pc is "idle" (no
\* request), "hit" (line 81 was true, line 83 is next), "miss" (line 81 was
\* false, line 86 is next) or "got" (line 86 returned data, line 91 is next);
\* res is the answer to its last request
NoAnswer == [kind |-> "none", status |-> 0, report |-> ReportNone, seen |-> -1]

ThreadIdle ==
    [pc |-> "idle", current_time |-> 0, compliance_data |-> JNull, res |-> NoAnswer]

RaceIdle == [th |-> [t \in Threads |-> ThreadIdle], written |-> {}]

Init ==
    /\ InitServer
    /\ ev = EvIdle
    /\ ex = ExIdle
    /\ race = RaceIdle
    /\ qp = QpIdle
    /\ ing = IngIdle
    /\ fn = FnIdle
    /\ exp = ExpIdle

Tick(instants) ==
    /\ \E t \in instants : t > now /\ now' = t
    /\ UNCHANGED <<calls, stored_analysis_results, document_cache,
                   prev_stored, prev_docs, last, ev, ex, race, qp, ing, fn, exp>>

\* GET /health
Health ==
    /\ last' = Last("health", Req("absent", JNull), 200, "", ReportNone, NoPdf, FALSE,
                    NoResp, JNull, "")
    /\ prev_stored' = stored_analysis_results
    /\ prev_docs' = document_cache
    /\ UNCHANGED <<now, calls, stored_analysis_results, document_cache, ev, ex, race, qp, ing, fn, exp>>

\* POST /analyze-compliance, where get_compliance_from_perplexity, if the
\* handler invokes it, returns compliance_data after the POST answered response
AnalyzeWith(req, compliance_data, response) ==
    LET r == analyze_compliance(req, stored_analysis_results, now, compliance_data)
    IN /\ r.invoked => calls < MaxCalls
       /\ calls' = IF r.invoked THEN calls + 1 ELSE calls
       /\ stored_analysis_results' = r.cache
       /\ prev_stored' = stored_analysis_results
       /\ prev_docs' = document_cache
       /\ last' = Last("analyze", req, r.status, r.error, r.report, NoPdf, r.invoked,
                       response, IF r.invoked THEN compliance_data ELSE JNull, r.cache_key)
       /\ UNCHANGED <<now, document_cache, ev, ex, race, qp, ing, fn, exp>>

\* whether the handler gets as far as invoking get_compliance_from_perplexity
Invokes(req) == analyze_compliance(req, stored_analysis_results, now, JNull).invoked

\* POST /analyze-compliance of the program as it is
Analyze ==
    \E req \in Requests :
        IF Invokes(req) /\ AnalysisPosts
        THEN \E response \in Answers :
                 AnalyzeWith(req, get_compliance_from_perplexity(response), response)
        ELSE AnalyzeWith(req, get_compliance_from_perplexity(NoResp), NoResp)

\* POST /analyze-compliance with get_compliance_from_perplexity replaced by a
\* test double (the call-count mock of the cache test)
AnalyzeWithDouble ==
    \E req \in Requests :
        IF Invokes(req)
        THEN \E compliance_data \in DoubleReturns : AnalyzeWith(req, compliance_data, NoResp)
        ELSE AnalyzeWith(req, JNull, NoResp)

\* the fields of a request to /export-regulatory-doc that has them all
DocFields(req) ==
    [jurisdiction |-> Get(req.data, "jurisdiction", JNull),
     doc_type |-> Get(req.data, "docType", JStr("full")),
     company_profile |-> Get(req.data, "companyProfile", JNull)]

\* a thread answers a request to /export-regulatory-doc
DocAnswered(t, req, status, error, pdf, invoked, response, cache_key) ==
    /\ last' = Last("regdoc", req, status, error, ReportNone, pdf, invoked, response,
                    JNull, cache_key)
    /\ prev_stored' = stored_analysis_results
    /\ prev_docs' = document_cache
    /\ exp' = [th |-> [exp.th EXCEPT ![t] = ExpThreadIdle],
               current_time |-> IF cache_key = "" THEN now ELSE exp.th[t].current_time,
               found |-> IF cache_key = "" THEN -1 ELSE exp.th[t].found]

\* app.py:192-211: a thread takes a request, validates it, reads the clock and
\* tests the cache; a request that fails the validation is answered at once
DocCheck(t, requests) ==
    /\ exp.th[t].pc = "idle"
    /\ \E req \in requests :
           LET r == export_regulatory_doc(req, document_cache, now, NoResp, now, now)
           IN IF r.cache_key = ""
              THEN /\ DocAnswered(t, req, r.status, r.error, NoPdf, FALSE, NoResp, "")
                   /\ UNCHANGED <<now, calls, stored_analysis_results, document_cache,
                                  ev, ex, race, qp, ing, fn>>
              ELSE /\ exp' = [exp EXCEPT !.th[t] =
                          [pc |-> IF DocFresh(document_cache, r.cache_key, now)
                                  THEN "hit" ELSE "miss",
                           req |-> req, cache_key |-> r.cache_key, current_time |-> now,
                           found |-> IF r.cache_key \in DOMAIN document_cache
                                     THEN document_cache[r.cache_key].timestamp ELSE -1]]
                   /\ UNCHANGED <<now, calls, stored_analysis_results, document_cache,
                                  prev_stored, prev_docs, last, ev, ex, race, qp, ing, fn>>

\* app.py:213-236: the thread reads the content of the entry, renders the PDF
\* and answers
DocHit(t) ==
    LET th == exp.th[t]
    IN /\ th.pc = "hit"
       /\ DocAnswered(t, th.req, 200, "",
                      generate_regulatory_pdf(document_cache[th.cache_key].content,
                                              DocFields(th.req).jurisdiction, now),
                      FALSE, NoResp, th.cache_key)
       /\ UNCHANGED <<now, calls, stored_analysis_results, document_cache,
                      ev, ex, race, qp, ing, fn>>

\* the instants the clock shows from lo to hi, instants being those it stops at
Readings(instants, lo, hi) == {i \in instants \cup {lo, hi} : lo <= i /\ i <= hi}

\* app.py:216-236: get_regulatory_document returns to the thread, its POST
\* having answered response and its document dated by a reading of the clock
\* from line 210 to now; the thread stores the entry under the time it
\* read at line 210, renders the PDF with the clock read again, and answers
DocStore(t, answers, instants) ==
    LET th == exp.th[t]
        f == DocFields(th.req)
    IN /\ th.pc = "miss"
       /\ calls < MaxCalls
       /\ calls' = calls + 1
       /\ \E response \in answers, generated \in Readings(instants, th.current_time, now) :
              LET r == export_regulatory_doc(th.req, EmptyCache, th.current_time,
                                             response, generated, now)
              IN /\ document_cache' =
                        IF r.status = 200
                        THEN Put(document_cache, th.cache_key, r.cache[th.cache_key])
                        ELSE document_cache
                 /\ DocAnswered(t, th.req, r.status, r.error, r.pdf, TRUE, response,
                                th.cache_key)
       /\ UNCHANGED <<now, stored_analysis_results, ev, ex, race, qp, ing, fn>>

\* PerplexityComplianceEvaluator(api_key, company_data, compliance_docs)
Construct ==
    /\ ev.pc = "new"
    /\ \E company_data \in CompanyData, compliance_docs \in ComplianceDocs :
           ev' = [ev EXCEPT !.pc = "idle",
                            !.self = Evaluator(company_data, compliance_docs, JNull),
                            !.before = Evaluator(company_data, compliance_docs, JNull),
                            !.compliance_docs = compliance_docs]
    /\ UNCHANGED <<now, calls, stored_analysis_results, document_cache,
                   prev_stored, prev_docs, last, ex, race, qp, ing, fn, exp>>

\* evaluator.evaluate_compliance(jurisdiction), the upstream answering response
Evaluate ==
    /\ ev.pc # "new"
    /\ calls < MaxCalls
    /\ \E jurisdiction \in EvaluatorJurisdictions, response \in EvaluatorAnswers :
           LET out == evaluate_compliance(ev.self, jurisdiction, response)
           IN ev' = [pc |-> IF out.raised THEN "raised" ELSE "returned",
                     self |-> Evaluator(ev.self.company_data, out.compliance_text,
                                        out.evaluation_results),
                     before |-> ev.self,
                     compliance_docs |-> ev.compliance_docs,
                     jurisdiction |-> jurisdiction, response |-> response, out |-> out]
    /\ calls' = calls + 1
    /\ UNCHANGED <<now, stored_analysis_results, document_cache,
                   prev_stored, prev_docs, last, ex, race, qp, ing, fn, exp>>

\* extract_requirements(content)
Extract ==
    /\ ~ex.done
    /\ \E content \in MarkdownContents :
           ex' = [done |-> TRUE, content |-> content,
                  requirements |-> extract_requirements(content)]
    /\ UNCHANGED <<now, calls, stored_analysis_results, document_cache,
                   prev_stored, prev_docs, last, ev, race, qp, ing, fn, exp>>

\* app.py:77-81: a thread takes a request, reads the clock and tests the cache
RaceCheck(t) ==
    LET cache_key == RaceKey
        fresh == AnalysisFresh(stored_analysis_results, cache_key, now)
    IN /\ race.th[t].pc = "idle"
       /\ race' = [race EXCEPT !.th[t] =
               [pc |-> IF fresh THEN "hit" ELSE "miss",
                current_time |-> now,
                compliance_data |-> JNull,
                res |-> [NoAnswer EXCEPT !.seen =
                            IF fresh THEN stored_analysis_results[cache_key].timestamp
                            ELSE -1]]]
       /\ UNCHANGED <<now, calls, stored_analysis_results, document_cache,
                      prev_stored, prev_docs, last, ev, ex, qp, ing, fn, exp>>

\* app.py:83: the thread reads the data of the entry and answers; a key that
\* is gone raises KeyError, which line 102 turns into 500
RaceHit(t) ==
    LET cache_key == RaceKey
    IN /\ race.th[t].pc = "hit"
       /\ race' = [race EXCEPT !.th[t].pc = "idle",
                               !.th[t].res.kind = "hit",
                               !.th[t].res.status =
                                   IF cache_key \in DOMAIN stored_analysis_results
                                   THEN 200 ELSE 500,
                               !.th[t].res.report =
                                   IF cache_key \in DOMAIN stored_analysis_results
                                   THEN stored_analysis_results[cache_key].data
                                   ELSE ReportNone]
       /\ UNCHANGED <<now, calls, stored_analysis_results, document_cache,
                      prev_stored, prev_docs, last, ev, ex, qp, ing, fn, exp>>

\* app.py:86-89: the LLM client (a test double) returns to the thread
RaceCall(t) ==
    /\ race.th[t].pc = "miss"
    /\ calls < MaxCalls
    /\ calls' = calls + 1
    /\ \E compliance_data \in RaceReturns :
           race' = [race EXCEPT !.th[t] =
               IF Truthy(compliance_data)
               THEN [@ EXCEPT !.pc = "got", !.compliance_data = compliance_data]
               ELSE [@ EXCEPT !.pc = "idle", !.res.kind = "miss", !.res.status = 500]]
    /\ UNCHANGED <<now, stored_analysis_results, document_cache,
                   prev_stored, prev_docs, last, ev, ex, qp, ing, fn, exp>>

\* app.py:91-100: the thread formats the data, stores the entry and answers
RaceStore(t) ==
    LET cache_key == RaceKey
        formatted_response ==
            format_compliance_response(race.th[t].compliance_data, "us")
    IN /\ race.th[t].pc = "got"
       /\ stored_analysis_results' =
              StoreAnalysis(stored_analysis_results, cache_key, race.th[t].current_time,
                            formatted_response)
       /\ race' = [race EXCEPT !.th[t].pc = "idle",
                               !.th[t].res.kind = "miss",
                               !.th[t].res.status = 200,
                               !.th[t].res.report = formatted_response,
                               !.written = @ \cup {[timestamp |-> race.th[t].current_time,
                                                    data |-> formatted_response]}]
       /\ UNCHANGED <<now, calls, document_cache, prev_stored, prev_docs, last,
                      ev, ex, qp, ing, fn, exp>>

\* evaluator.query_perplexity_api(query) begins
QueryStart ==
    /\ qp.pc = "idle"
    /\ \E variant \in {"recursive", "loop"} :
           qp' = [QpIdle EXCEPT !.pc = "posting", !.variant = variant]
    /\ UNCHANGED <<now, calls, stored_analysis_results, document_cache,
                   prev_stored, prev_docs, last, ev, ex, race, ing, fn, exp>>

QueryAfter(a, answer) ==
    [pc |-> CASE a.outcome = "continue" -> "posting"
              [] a.outcome = "return" -> "returned"
              [] a.outcome = "raise" -> "raised",
     variant |-> qp.variant,
     seen |-> Append(qp.seen, answer),
     retry_count |-> a.retry_count,
     sleeps |-> qp.sleeps \o a.slept,
     error |-> a.error]

\* compliance_evaluator_perplexity.py: a POST of the recursive variant
QueryRecursive ==
    /\ qp.pc = "posting" /\ qp.variant = "recursive"
    /\ Len(qp.seen) < MaxAttempts
    /\ \E answer \in Answers429 :
           qp' = QueryAfter(RecursiveAttempt(answer, qp.retry_count), answer)
    /\ UNCHANGED <<now, calls, stored_analysis_results, document_cache,
                   prev_stored, prev_docs, last, ev, ex, race, ing, fn, exp>>

\* compliance_evaluator.py: a POST of the variant with the retry loop
QueryLoop ==
    /\ qp.pc = "posting" /\ qp.variant = "loop"
    /\ Len(qp.seen) < MaxAttempts
    /\ \E answer \in Answers429, json_error_retries \in BOOLEAN :
           qp' = QueryAfter(LoopAttempt(answer, qp.retry_count, json_error_retries), answer)
    /\ UNCHANGED <<now, calls, stored_analysis_results, document_cache,
                   prev_stored, prev_docs, last, ev, ex, race, ing, fn, exp>>

\* compliance_evaluator.py:113: ocr_pdf enters the with statement
OcrEnter ==
    /\ ing.pc = "idle"
    /\ \E scan \in Scans, mistral \in MistralDoubles :
           ing' = [IngIdle EXCEPT !.pc = "with", !.op = "ocr_pdf", !.scan = scan,
                                  !.mistral = mistral, !.temp_dir = "exists"]
    /\ UNCHANGED <<now, calls, stored_analysis_results, document_cache,
                   prev_stored, prev_docs, last, ev, ex, race, qp, fn, exp>>

\* lines 115-125: the body of the with statement runs, to its end or to an
\* exception
OcrRun ==
    /\ ing.pc = "with"
    /\ ing' = [ing EXCEPT !.pc = "leaving", !.body = OcrBody(ing.scan)]
    /\ UNCHANGED <<now, calls, stored_analysis_results, document_cache,
                   prev_stored, prev_docs, last, ev, ex, race, qp, fn, exp>>

\* the with statement is left
OcrLeave ==
    /\ ing.pc = "leaving"
    /\ ing' = [ing EXCEPT !.pc = "after",
                          !.temp_dir = IF ReleaseOnExit(ing.body.raised)
                                       THEN "removed" ELSE "exists"]
    /\ UNCHANGED <<now, calls, stored_analysis_results, document_cache,
                   prev_stored, prev_docs, last, ev, ex, race, qp, fn, exp>>

\* lines 127-136: the rest of ocr_pdf, to its return
OcrFinish ==
    /\ ing.pc = "after"
    /\ ing' = [ing EXCEPT !.pc = "returned",
                          !.result = OcrReturn(ing.body, ing.mistral.mistral_client,
                                               ing.mistral.first, ing.mistral.second)]
    /\ UNCHANGED <<now, calls, stored_analysis_results, document_cache,
                   prev_stored, prev_docs, last, ev, ex, race, qp, fn, exp>>

\* lines 207-275: a call of analyze_documents
AnalyzeDocuments ==
    /\ ing.pc = "idle"
    /\ \E documents \in UploadLists, mistral \in MistralDoubles :
           LET r == analyze_documents(documents, mistral.mistral_client,
                                      mistral.first, mistral.second)
           IN ing' = [IngIdle EXCEPT !.pc = IF r.raised = "" THEN "returned" ELSE "raised",
                                     !.op = "analyze_documents",
                                     !.documents = documents, !.mistral = mistral,
                                     !.all_text = r.all_text, !.raised = r.raised]
    /\ UNCHANGED <<now, calls, stored_analysis_results, document_cache,
                   prev_stored, prev_docs, last, ev, ex, race, qp, fn, exp>>

\* compliance_evaluator.py:508-639: evaluate_compliance analyzes the documents,
\* if any, and builds the query
EvaluateStart ==
    /\ ing.pc = "idle"
    /\ \E documents \in EvaluatedDocuments, mistral \in MistralDoubles,
          company_name \in CompanyNames :
           LET r == IF documents = <<>> THEN [raised |-> "", all_text |-> <<>>]
                    ELSE analyze_documents(documents, mistral.mistral_client,
                                           mistral.first, mistral.second)
           IN ing' = [IngIdle EXCEPT !.pc = IF r.raised = "" THEN "stages" ELSE "raised",
                                     !.op = "evaluate_compliance",
                                     !.company_name = company_name,
                                     !.documents = documents, !.mistral = mistral,
                                     !.all_text = r.all_text, !.raised = r.raised]
    /\ UNCHANGED <<now, calls, stored_analysis_results, document_cache,
                   prev_stored, prev_docs, last, ev, ex, race, qp, fn, exp>>

\* lines 642-685: the next call of the try block runs; an exception ends the
\* function with the error dict of line 680, the last call with the report
EvaluateStage ==
    /\ ing.pc = "stages"
    /\ LET stage == Stages[Len(ing.stages) + 1]
       IN \E answer \in QueryAnswers :
              LET content == IF stage = "query_perplexity_api" THEN QueriedContent(answer)
                             ELSE ing.result
              IN ing' = [ing EXCEPT
                     !.stages = Append(ing.stages, stage),
                     !.result = IF StageRaises(stage, content) THEN Text("error", stage, 0, FALSE)
                                ELSE IF stage = "query_perplexity_api" THEN content
                                ELSE IF stage = "process_markdown_content"
                                THEN Text("markdown", "processed",
                                          process_markdown_content(
                                              AnsweredMarkdown(content.of),
                                              ing.company_name).size,
                                          FALSE)
                                ELSE content,
                     !.pc = IF StageRaises(stage, content) \/ Len(ing.stages) + 1 = Len(Stages)
                            THEN "returned" ELSE "stages"]
    /\ UNCHANGED <<now, calls, stored_analysis_results, document_cache,
                   prev_stored, prev_docs, last, ev, ex, race, qp, fn, exp>>

\* compliance_evaluator.py:1295-1347: a call of get_issuer_from_url
GetIssuerFromUrl ==
    /\ fn.op = ""
    /\ \E url \in Urls :
           fn' = [op |-> "get_issuer_from_url", arg |-> url,
                  result |-> get_issuer_from_url(url)]
    /\ UNCHANGED <<now, calls, stored_analysis_results, document_cache,
                   prev_stored, prev_docs, last, ev, ex, race, qp, ing, exp>>

\* POST /export-report/<format>
ExportReport ==
    /\ \E format \in Formats, req \in ReportRequests :
           LET r == export_report(format, req)
           IN last' = Last("export", [raw |-> req.raw, data |-> req.data, format |-> format],
                           r.status, r.error, ReportNone, NoPdf, FALSE, NoResp, JNull,
                           r.mimetype)
    /\ prev_stored' = stored_analysis_results
    /\ prev_docs' = document_cache
    /\ UNCHANGED <<now, calls, stored_analysis_results, document_cache, ev, ex, race, qp,
                   ing, fn, exp>>

\* POST /analyze-compliance with a well-formed body, over a test double
AnalyzeValid ==
    \E req \in ValidRequests, compliance_data \in ServerReturns :
        AnalyzeWith(req, IF Invokes(req) THEN compliance_data ELSE JNull, NoResp)

\* the strings of the fields that make a cache key
KeyStrings == {"us", "us_Acme", "Acme", "Acme_Corp", "Corp", "Fin"}

\* the jurisdiction, companyName and industry of a request
KeyFields(jurisdiction, companyName, industry) ==
    [jurisdiction |-> jurisdiction, companyName |-> companyName, industry |-> industry]

\* app.py:65-76 on the fields of a request
KeyOfFields(f) ==
    AnalysisKey(JStr(f.jurisdiction),
                JObj(<<"companyName", "industry">>, <<JStr(f.companyName), JStr(f.industry)>>))

\* app.py:76: the cache keys of two requests
CacheKeys ==
    /\ fn.op = ""
    /\ \E j1 \in KeyStrings, c1 \in KeyStrings, i1 \in {"Fin", "Corp_Fin"},
          j2 \in KeyStrings, c2 \in KeyStrings, i2 \in {"Fin", "Corp_Fin"} :
           LET a == KeyFields(j1, c1, i1)
               b == KeyFields(j2, c2, i2)
           IN fn' = [op |-> "cache_key", arg |-> <<a, b>>,
                     result |-> <<KeyOfFields(a), KeyOfFields(b)>>]
    /\ UNCHANGED <<now, calls, stored_analysis_results, document_cache,
                   prev_stored, prev_docs, last, ev, ex, race, qp, ing, exp>>

\* the analysis service as it is
Next == Tick(Instants(ANALYSIS_TTL)) \/ Health \/ Analyze

Spec == Init /\ [][Next]_vars

\* the document service as it is
NextDoc ==
    \/ Tick({DOC_TTL - 1, DOC_TTL})
    \/ \E t \in Threads : DocCheck(t, RacedDocRequests) \/ DocHit(t) \/ DocStore(t, DocAnswers, {DOC_TTL - 1, DOC_TTL})

SpecDoc == Init /\ [][NextDoc]_vars

\* the handler of /analyze-compliance over a test double of the LLM client
NextHandler == Tick(Instants(ANALYSIS_TTL)) \/ AnalyzeWithDouble

SpecHandler == Init /\ [][NextHandler]_vars

\* threads of the server racing on one cache key, over a test double
NextRace ==
    \/ Tick(Instants(ANALYSIS_TTL))
    \/ \E t \in Threads : RaceCheck(t) \/ RaceHit(t) \/ RaceCall(t) \/ RaceStore(t)

SpecRace == Init /\ [][NextRace]_vars

\* calls of query_perplexity_api
NextQuery == QueryStart \/ QueryRecursive \/ QueryLoop

SpecQuery == Init /\ [][NextQuery]_vars

\* calls of ocr_pdf and of analyze_documents
NextIngest == OcrEnter \/ OcrRun \/ OcrLeave \/ OcrFinish \/ AnalyzeDocuments

SpecIngest == Init /\ [][NextIngest]_vars

\* calls of evaluate_compliance(company_data, documents)
NextReport == EvaluateStart \/ EvaluateStage

SpecReport == Init /\ [][NextReport]_vars

\* the four endpoints of the server, the LLM client a test double
NextServer ==
    \/ Tick({ANALYSIS_TTL})
    \/ Health
    \/ ExportReport
    \/ AnalyzeValid
    \/ \E t \in {"t1"} : DocCheck(t, ValidDocRequests) \/ DocHit(t) \/ DocStore(t, ServerDocAnswers, {ANALYSIS_TTL})

SpecServer == Init /\ [][NextServer]_vars

\* the cache keys of pairs of requests
NextKey == CacheKeys

SpecKey == Init /\ [][NextKey]_vars

\* calls of get_issuer_from_url
NextIssuer == GetIssuerFromUrl

SpecIssuer == Init /\ [][NextIssuer]_vars

\* an evaluator of compliance_evaluator_perplexity.py and its calls
NextEvaluator == Construct \/ Evaluate

SpecEvaluator == Init /\ [][NextEvaluator]_vars

\* calls of extract_requirements
NextExtract == Extract

SpecExtract == Init /\ [][NextExtract]_vars

---------------------------------------------------------------------------
(* Properties of POST /analyze-compliance *)

\* a request that passes the validation of app.py:63-74 and reaches the cache
WellFormed(req) ==
    /\ req.raw = "json"
    /\ req.data.t = "obj"
    /\ Truthy(Get(req.data, "apiKey", JNull))
    /\ Truthy(Get(req.data, "jurisdiction", JNull))
    /\ Get(req.data, "companyProfile", JNull).t = "obj"
    /\ Truthy(Get(req.data, "companyProfile", JNull))

KeyOf(req) ==
    AnalysisKey(Get(req.data, "jurisdiction", JNull), Get(req.data, "companyProfile", JNull))

\* the last request was an analysis request for a key
AnalyzedKey == last.ep = "analyze" /\ WellFormed(last.req)

\* the age of the entry the last request found under its key
FoundAge == last.at - prev_stored[KeyOf(last.req)].timestamp

\* C1: a request whose key has an entry stored less than 3600 seconds before
\* it does not invoke get_compliance_from_perplexity, answers 200 with exactly
\* the stored report, and leaves the cache as it was.
C1_CacheHit ==
    (AnalyzedKey /\ KeyOf(last.req) \in DOMAIN prev_stored /\ FoundAge < 3600)
        => /\ ~last.invoked
           /\ last.status = 200
           /\ last.report = prev_stored[KeyOf(last.req)].data
           /\ stored_analysis_results = prev_stored

\* a hit on a stored report one second before it expires
C1_Witness ==
    /\ AnalyzedKey
    /\ KeyOf(last.req) \in DOMAIN prev_stored
    /\ FoundAge = 3599
    /\ ~last.invoked
    /\ last.status = 200
    /\ ~last.report.none
    /\ last.report = prev_stored[KeyOf(last.req)].data

\* C2: an entry aged 3600 seconds or more is not served: the request invokes
\* the LLM client again; the entry is replaced (stamped with the time of the
\* request) when the client returns data, and when the client fails the
\* answer is 500 and the entry stays.  No entry is ever removed, and an entry
\* changes only by the overwrite of a request for its own key.
C2_Expired ==
    /\ (AnalyzedKey /\ KeyOf(last.req) \in DOMAIN prev_stored /\ FoundAge >= 3600)
           => /\ last.invoked
              /\ IF Truthy(last.compliance_data)
                 THEN /\ last.status = 200
                      /\ stored_analysis_results[KeyOf(last.req)].timestamp = last.at
                      /\ stored_analysis_results[KeyOf(last.req)].data = last.report
                 ELSE /\ last.status = 500
                      /\ last.report.none
                      /\ stored_analysis_results = prev_stored
    /\ DOMAIN prev_stored \subseteq DOMAIN stored_analysis_results
    /\ \A k \in DOMAIN prev_stored :
           stored_analysis_results[k] # prev_stored[k]
               => /\ AnalyzedKey /\ k = KeyOf(last.req)
                  /\ last.invoked /\ last.status = 200
                  /\ last.at - prev_stored[k].timestamp >= 3600

\* a refresh that fails exactly 3600 seconds after the entry was stored
C2_Witness ==
    /\ AnalyzedKey
    /\ KeyOf(last.req) \in DOMAIN prev_stored
    /\ FoundAge = 3600
    /\ last.invoked
    /\ ~Truthy(last.compliance_data)
    /\ last.status = 500
    /\ stored_analysis_results = prev_stored

\* the LLM client failed, or what it returned makes no report
NoReportIn(compliance_data) ==
    \/ ~Truthy(compliance_data)
    \/ format_compliance_response(compliance_data, "us").none

\* C3: when the LLM client fails or its answer cannot be made into a report
\* (it is no JSON object, or format_compliance_response fails on it), the
\* answer is 500 and never 200.
C3_UpstreamFailure500 ==
    (last.ep = "analyze" /\ last.invoked /\ NoReportIn(last.compliance_data))
        => last.status = 500

\* the body, apiKey, companyProfile or jurisdiction is missing or empty
MissingFields(req) ==
    \/ req.raw = "absent"
    \/ ~Truthy(req.data)
    \/ /\ req.data.t = "obj"
       /\ \/ ~Truthy(Get(req.data, "apiKey", JNull))
          \/ ~Truthy(Get(req.data, "companyProfile", JNull))
          \/ ~Truthy(Get(req.data, "jurisdiction", JNull))

\* C4: a request whose body, apiKey, companyProfile or jurisdiction is missing
\* or empty is answered 400, without a call of the LLM client and without a
\* change of stored_analysis_results.
C4_MissingFields400 ==
    (last.ep = "analyze" /\ MissingFields(last.req))
        => /\ last.status = 400
           /\ ~last.invoked
           /\ stored_analysis_results = prev_stored

\* the reports the service returns with 200: the one of the last answer and
\* the stored ones, which hits return
ReturnedReports ==
    {r \in {stored_analysis_results[k].data : k \in DOMAIN stored_analysis_results}
            \cup (IF last.ep = "analyze" /\ last.status = 200 THEN {last.report} ELSE {}) :
        ~r.none}

\* the elements of a requirementsList
ItemsOf(requirements_list) ==
    IF requirements_list.t = "arr" THEN requirements_list.items ELSE <<>>

\* C5: in every report, requirements.total is the length of requirementsList
\* and requirements.met the number of its entries whose status is "met",
\* whatever total and met the answer of the LLM carried.
C5_Counts ==
    \A r \in ReturnedReports :
        LET items == ItemsOf(r.requirementsList)
            IsMet(item) ==
                \E j \in 1..Len(item.keys) :
                    /\ item.keys[j] = "status"
                    /\ item.items[j] = JStr("met")
                    /\ \A l \in 1..Len(item.keys) : item.keys[l] = "status" => l <= j
        IN /\ r.total = Len(items)
           /\ r.met = Cardinality({i \in 1..Len(items) : IsMet(items[i])})

\* a report counted 2 and 1 from an answer that said 12 and 8
C5_Witness ==
    /\ last.ep = "analyze" /\ last.invoked /\ last.status = 200
    /\ ~last.report.none
    /\ Get(Get(last.compliance_data, "requirements", JNull), "total", JNull) = JNum(12)
    /\ Get(Get(last.compliance_data, "requirements", JNull), "met", JNull) = JNum(8)
    /\ last.report.total = 2
    /\ last.report.met = 1

\* C6: the complianceScore of every report returned, fresh or cached, is a
\* number from 0 to 100.
C6_ScoreRange ==
    \A r \in ReturnedReports :
        /\ r.complianceScore.t = "num"
        /\ r.complianceScore.n >= 0
        /\ r.complianceScore.n <= 100

StatusRank(status) ==
    CASE status = JStr("compliant") -> 2
      [] status = JStr("partial") -> 1
      [] OTHER -> 0

RiskRank(risk) ==
    CASE risk = JStr("low") -> 0
      [] risk = JStr("medium") -> 1
      [] OTHER -> 2

\* C7: status and riskLevel are a monotonic function of complianceScore: two
\* reports of one score have one status and one risk level, and a report of a
\* higher score has no worse status and no higher risk.
C7_StatusFunctionOfScore ==
    \A r1, r2 \in ReturnedReports :
        /\ r1.complianceScore = r2.complianceScore
               => r1.status = r2.status /\ r1.riskLevel = r2.riskLevel
        /\ (r1.complianceScore.t = "num" /\ r2.complianceScore.t = "num"
                /\ r1.complianceScore.n > r2.complianceScore.n)
               => /\ StatusRank(r1.status) >= StatusRank(r2.status)
                  /\ RiskRank(r1.riskLevel) <= RiskRank(r2.riskLevel)

---------------------------------------------------------------------------
(* Properties of extract_requirements and evaluate_compliance(jurisdiction) *)

\* the content has no requirements section, no bullet and no phrase
NothingFound(content) ==
    \A i \in 1..Len(content) :
        content[i].k \notin {"h2req", "bullet"} /\ content[i].mention = "-"

\* C8: extract_requirements never returns an empty list; for a content with
\* no requirements section, no bullet and no regulation phrase it returns
\* exactly one generic requirement.
C8_NeverEmpty ==
    ex.done => /\ ex.requirements # <<>>
               /\ NothingFound(ex.content) => Len(ex.requirements) = 1

\* the upstream query raises, or its answer holds no JSON to parse
UpstreamUnusable(response) ==
    \/ query_perplexity_api(response).raised
    \/ ~ExtractJson(query_perplexity_api(response).content).ok

\* C9: for an evaluator that has company data, evaluate_compliance does not
\* raise when the upstream query raises or answers without JSON: it returns
\* the entry of score 0, status "error", requirements 0 of 0 and an empty
\* requirementsList, and evaluation_results stays as it was.
C9_ErrorEntry ==
    (ev.pc \in {"returned", "raised"} /\ Truthy(ev.before.company_data)
         /\ UpstreamUnusable(ev.response))
        => /\ ev.pc = "returned"
           /\ Get(ev.out.result, "complianceScore", JNull) = JNum(0)
           /\ Get(ev.out.result, "status", JNull) = JStr("error")
           /\ Get(ev.out.result, "requirements", JNull)
                  = JObj(<<"total", "met">>, <<JNum(0), JNum(0)>>)
           /\ Get(ev.out.result, "requirementsList", JNull) = JArr(<<>>)
           /\ ev.self.evaluation_results = ev.before.evaluation_results

---------------------------------------------------------------------------
(* Properties of POST /export-regulatory-doc *)

WellFormedDoc(req) ==
    /\ req.raw = "json"
    /\ req.data.t = "obj"
    /\ Truthy(Get(req.data, "apiKey", JNull))
    /\ Truthy(Get(req.data, "jurisdiction", JNull))
    /\ Get(req.data, "companyProfile", JNull).t = "obj"
    /\ Truthy(Get(req.data, "companyProfile", JNull))

DocKeyOf(req) ==
    DocKey(Get(req.data, "jurisdiction", JNull), Get(req.data, "docType", JStr("full")),
           Get(req.data, "companyProfile", JNull))

ExportedKey == last.ep = "regdoc" /\ WellFormedDoc(last.req)

\* the age, at the clock the request read at line 210, of the entry it found
\* at line 211
FoundDocAge == exp.current_time - exp.found

\* C10: a request that finds under its key a document stored less than 86400
\* seconds before does not call get_regulatory_document and renders the PDF
\* from the stored content; at 86400 seconds or more the document is fetched
\* again and the entry overwritten, with the time the request read.
C10_DocCache ==
    (ExportedKey /\ exp.found >= 0)
        => IF FoundDocAge < 86400
           THEN /\ ~last.invoked
                /\ last.status = 200
                /\ last.pdf.from = prev_docs[DocKeyOf(last.req)].content
                /\ document_cache = prev_docs
           ELSE /\ last.invoked
                /\ last.status = 200
                /\ document_cache[DocKeyOf(last.req)].timestamp = exp.current_time
                /\ document_cache[DocKeyOf(last.req)].content.generated >= exp.current_time
                /\ last.pdf.from = document_cache[DocKeyOf(last.req)].content

\* a PDF rendered from the stored document one second before it expires
C10_Witness ==
    /\ ExportedKey
    /\ exp.found >= 0
    /\ FoundDocAge = 86399
    /\ ~last.invoked
    /\ last.status = 200
    /\ last.pdf.from = prev_docs[DocKeyOf(last.req)].content
    /\ last.pdf.from.error = ""

---------------------------------------------------------------------------
(* Properties of concurrent requests *)

\* C11: when requests race on one cache key, every cache hit answers 200
\* with the whole report of some completed analysis of that key (no entry is
\* seen half written, no key is missing), and the entry in the cache is
\* always one that a request wrote.
C11_RaceOnlyDuplicates ==
    /\ \A t \in Threads :
           race.th[t].res.kind = "hit"
               => /\ race.th[t].res.status = 200
                  /\ ~race.th[t].res.report.none
                  /\ \E e \in race.written : e.data = race.th[t].res.report
    /\ \A k \in DOMAIN stored_analysis_results :
           stored_analysis_results[k] \in race.written

---------------------------------------------------------------------------
(* Properties of query_perplexity_api *)

AllSeen(answer) == \A i \in 1..Len(qp.seen) : qp.seen[i] = answer

\* C12: in every variant, a call whose POSTs are all answered 429 stops after
\* a small number of attempts: once it has made 3 of them it has raised.
C12_BoundedRetries ==
    (qp.pc # "idle" /\ AllSeen("throttled") /\ Len(qp.seen) >= 3) => qp.pc = "raised"

\* C13: in the variant with the retry loop, a call that meets only 429 makes
\* exactly 3 POSTs, sleeps 2, 4 and 8 seconds after them and then raises; a
\* 200 answer on any attempt ends the call, which returns the body.
C13_ExponentialBackoff ==
    qp.variant = "loop"
        => /\ AllSeen("throttled")
                 => /\ Len(qp.seen) <= 3
                    /\ qp.sleeps = [i \in 1..Len(qp.seen) |-> 2 ^ i]
                    /\ qp.pc = (IF Len(qp.seen) = 3 THEN "raised" ELSE "posting")
           /\ (qp.seen # <<>> /\ qp.seen[Len(qp.seen)] = "ok")
                 => /\ qp.pc = "returned"
                    /\ \A i \in 1..(Len(qp.seen) - 1) : qp.seen[i] # "ok"
           /\ qp.pc = "returned" => qp.seen[Len(qp.seen)] = "ok"

\* three 429 answers, the sleeps 2, 4 and 8, and the call has raised
C13_Witness ==
    /\ qp.variant = "loop"
    /\ qp.seen = <<"throttled", "throttled", "throttled">>
    /\ qp.sleeps = <<2, 4, 8>>
    /\ qp.pc = "raised"

\* C17: in the variant with the retry loop, a call that meets only network
\* errors makes exactly 3 attempts, sleeps 2 and 4 seconds between them and
\* raises the last error without a sleep after the third; whatever the mix
\* of 429 answers and network errors, a call makes at most 3 POSTs.
C17_NetworkRetries ==
    qp.variant = "loop"
        => /\ AllSeen("network")
                 => /\ qp.sleeps = [i \in 1..(IF Len(qp.seen) = 3 THEN 2 ELSE Len(qp.seen))
                                       |-> 2 * i]
                    /\ qp.pc = (IF Len(qp.seen) = 3 THEN "raised" ELSE "posting")
                    /\ Len(qp.seen) = 3 => qp.error = "RequestException"
           /\ Len(qp.seen) <= 3

\* three network errors, the sleeps 2 and 4, and the error raised
C17_Witness ==
    /\ qp.variant = "loop"
    /\ qp.seen = <<"network", "network", "network">>
    /\ qp.sleeps = <<2, 4>>
    /\ qp.pc = "raised"
    /\ qp.error = "RequestException"

\* the strings of text, in order, somewhere in all_text
Contains(all_text, text) ==
    \E i \in 0..(Len(all_text) - Len(text)) : SubSeq(all_text, i + 1, i + Len(text)) = text

\* C14: analyze_documents never aborts because of one bad document: whatever
\* the list, no exception leaves the call, a document whose processing fails
\* adds nothing and the text of every other document is in the result.
C14_BadDocumentSkipped ==
    (ing.op = "analyze_documents" /\ ing.pc # "idle")
        => /\ ing.pc = "returned"
           /\ \A i \in 1..Len(ing.documents) :
                 LET alone == AnalyzeOne(ing.documents[i], FileName("", ""),
                                         ing.mistral.mistral_client,
                                         ing.mistral.first, ing.mistral.second)
                 IN Contains(ing.all_text, alone.added)

\* the Mistral call for the cleanup of OCR text gives a usable response
UsableChat(mistral) ==
    /\ mistral.mistral_client
    /\ \/ mistral.first = "content"
       \/ mistral.first \in {"type_error", "none_choices"} /\ mistral.second = "content"

\* C15: a failing Mistral call falls back to the raw text: ocr_pdf returns the
\* OCR text as it is whenever the cleanup call raises or gives no usable
\* response, and analyze_documents returns a text that contains the whole
\* text of the documents whatever the summarization does; neither raises.
C15_MistralFallsBackToRawText ==
    /\ (ing.op = "ocr_pdf" /\ ing.pc = "returned" /\ ~ing.body.raised /\ ~UsableChat(ing.mistral))
          => ing.result = ing.body.text
    /\ (ing.op = "analyze_documents" /\ ing.pc = "returned")
          => Contains(ing.all_text,
                      AnalyzeLoop(ing.documents, Unbound, <<>>, ing.mistral.mistral_client,
                                  ing.mistral.first, ing.mistral.second).all_text)

\* C16: a call of ocr_pdf that has created its temporary directory has removed
\* it once the with block is left, and so by the time it returns, whether the
\* OCR succeeded or the conversion, a save or pytesseract failed.
C16_TempDirReleased ==
    (ing.op = "ocr_pdf" /\ ing.pc \in {"after", "returned"}) => ing.temp_dir = "removed"

\* ocr_pdf has returned "" after a save failed on the second page, and the
\* directory is gone
C16_Witness ==
    /\ ing.op = "ocr_pdf" /\ ing.pc = "returned"
    /\ ing.scan = Scan(TRUE, <<"words", "save_fails">>)
    /\ ing.body.raised /\ ing.result = EmptyStr
    /\ ing.temp_dir = "removed"

\* the bullets and numbered items of the requirements section
SectionBullets(content) ==
    LET IsItem(line) == line.k = "bullet" IN SelectSeq(SectionText(content), IsItem)

Descriptions(requirements) ==
    [i \in 1..Len(requirements) |-> requirements[i].description]

\* C18: extract_requirements uses its strategies in strict priority and never
\* mixes them: when the section has a bullet or numbered item, the result is
\* those items and nothing else; otherwise it is the sentences of the section
\* longer than 10 characters; a requirement made by the phrase scan of the
\* whole document is returned only when the section gave nothing or is absent.
C18_StrictPriority ==
    ex.done =>
        LET items == SectionBullets(ex.content)
            sentences == FromSentences(SectionText(ex.content))
            mentions == FromMentions(ex.content)
        IN /\ items # <<>>
                 => Descriptions(ex.requirements) = [i \in 1..Len(items) |-> items[i].text]
           /\ (items = <<>> /\ sentences # <<>>) => ex.requirements = sentences
           /\ (\E i \in 1..Len(ex.requirements), j \in 1..Len(mentions) :
                   ex.requirements[i].description = mentions[j].description)
                 => (items = <<>> /\ sentences = <<>> /\ ex.requirements = mentions)

\* a section with one bullet in a document that also names a regulation: the
\* bullet alone is returned
C18_Witness ==
    /\ ex.done
    /\ Len(SectionBullets(ex.content)) = 1
    /\ FromMentions(ex.content) # <<>>
    /\ Len(ex.requirements) = 1
    /\ ex.requirements[1].description = SectionBullets(ex.content)[1].text

\* C19, as amended: the status of a bullet of the requirements section
\* follows the keywords, the 'compliant' group first: an item that matches it
\* gets "met", also when it matches the 'partially' group too; an item that
\* matches only the 'partially' group gets "partial"; any other item gets
\* "not-met".  Every requirement returned has a status among met, partial and
\* not-met and a risk among high, medium and low.
C19_StatusByKeyword ==
    ex.done =>
        LET items == SectionBullets(ex.content)
        IN /\ \A i \in 1..Len(items) :
                 /\ items[i].met => ex.requirements[i].status = "met"
                 /\ (items[i].partial /\ ~items[i].met) => ex.requirements[i].status = "partial"
                 /\ (~items[i].partial /\ ~items[i].met) => ex.requirements[i].status = "not-met"
           /\ \A i \in 1..Len(ex.requirements) :
                 /\ ex.requirements[i].status \in {"met", "partial", "not-met"}
                 /\ ex.requirements[i].risk \in {"high", "medium", "low"}

\* a bullet that matches both groups, "partially compliant", has status "met"
\* and one that matches only the second, "in progress", has status "partial"
C19_Witness ==
    /\ ex.done
    /\ \E i, j \in 1..Len(SectionBullets(ex.content)) :
           /\ SectionBullets(ex.content)[i].met /\ SectionBullets(ex.content)[i].partial
           /\ ex.requirements[i].status = "met"
           /\ ex.requirements[i].risk = "high"
           /\ ~SectionBullets(ex.content)[j].met /\ SectionBullets(ex.content)[j].partial
           /\ ex.requirements[j].status = "partial"
           /\ ex.requirements[j].risk = "low"

\* C19, as stated: an item that matches the 'compliant' group gets "met", an
\* item that matches the 'partially' group gets "partial", any other item
\* gets "not-met".
C19_AsStated ==
    ex.done =>
        LET items == SectionBullets(ex.content)
        IN \A i \in 1..Len(items) :
              /\ items[i].met => ex.requirements[i].status = "met"
              /\ items[i].partial => ex.requirements[i].status = "partial"
              /\ (~items[i].partial /\ ~items[i].met) => ex.requirements[i].status = "not-met"

\* the positions of a stage among those that have run
Ran(stage) == {i \in 1..Len(ing.stages) : ing.stages[i] = stage}

\* C20: evaluate_compliance runs its extraction stages in the order
\* requirements, recommendations, regulatory references: the extraction of the
\* requirements is over when that of the recommendations starts, and the
\* extraction of the references comes after both.
C20_StageOrder ==
    ing.op = "evaluate_compliance"
        => /\ \A j \in Ran("extract_recommendations") :
                 \E i \in Ran("extract_requirements") : i < j
           /\ \A k \in Ran("extract_regulatory_references") :
                 /\ \E i \in Ran("extract_requirements") : i < k
                 /\ \E j \in Ran("extract_recommendations") : j < k

---------------------------------------------------------------------------
(* Properties of get_issuer_from_url *)

RECURSIVE Labels(_, _, _)

\* the labels of a domain, the strings between its dots
Labels(domain, open, acc) ==
    IF domain = <<>> THEN Append(acc, open)
    ELSE IF Head(domain) = "." THEN Labels(Tail(domain), "", Append(acc, open))
    ELSE Labels(Tail(domain), open \o Head(domain), acc)

\* a domain under .gov: one of its labels after the first is "gov"
GovDomain(domain) ==
    LET labels == Labels(domain, "", <<>>)
    IN \E i \in 2..Len(labels) : labels[i] = "gov"

MatchesNoKey(domain) == \A i \in 1..Len(IssuerMap) : ~Infix(IssuerMap[i].key, domain)

\* C21: for a URL whose domain is a .gov domain that matches no key of the
\* issuer table, get_issuer_from_url returns "<AGENCY> - Government Agency",
\* AGENCY being the first label of the domain in upper case; for any other
\* URL whose domain matches no key it returns the domain itself; it never
\* raises.
C21_GovernmentAgencyDefault ==
    (fn.op = "get_issuer_from_url" /\ fn.arg.str /\ Len(fn.arg.segments) >= 3
         /\ MatchesNoKey(fn.arg.segments[3]))
        => LET domain == fn.arg.segments[3]
               first == FirstPart(domain)
           IN IF GovDomain(domain)
              THEN fn.result = Join([i \in 1..Len(first) |-> UpperPiece(first[i])])
                                   \o " - Government Agency"
              ELSE fn.result = Join(domain)

---------------------------------------------------------------------------
(* Properties of the caches *)

\* C22: every entry of stored_analysis_results holds a report that is not
\* None, with its jurisdictionId, complianceScore, status, riskLevel,
\* requirements and requirementsList, so that a request answered 200 from the
\* cache never gets a null body.
C22_StoredReportsNotNull ==
    /\ \A k \in DOMAIN stored_analysis_results :
          /\ ~stored_analysis_results[k].data.none
          /\ stored_analysis_results[k].data.jurisdictionId # ""
          /\ stored_analysis_results[k].data.requirementsList.t = "arr"
    /\ (last.ep = "analyze" /\ last.status = 200 /\ ~last.invoked) => ~last.report.none

\* C23: document_cache holds only documents made from a successful upstream
\* answer: after a failed fetch (a status other than 200, an empty answer, an
\* exception) the error document is not stored, and the cache is as it was.
C23_OnlySuccessfulDocumentsCached ==
    /\ \A k \in DOMAIN document_cache : document_cache[k].content.error = ""
    /\ (ExportedKey /\ last.invoked /\ last.pdf.from.error # "")
           => document_cache = prev_docs

\* the apiKey of a request
ApiKeyOf(req) == Fmt(Get(req.data, "apiKey", JNull))

\* C24: a report produced by an upstream call made with one apiKey is not
\* handed to a request that carries another apiKey (and the same jurisdiction,
\* companyName and industry) without an upstream call made with that request's
\* own key.  Stated on two requests that follow each other.
C24_ReportsNotSharedAcrossApiKeys ==
    [][~(/\ last.ep = "analyze" /\ last.status = 200 /\ last.invoked
         /\ last'.ep = "analyze" /\ last'.status = 200
         /\ last'.cache_key = last.cache_key
         /\ ApiKeyOf(last'.req) # ApiKeyOf(last.req)
         /\ ~last'.invoked
         /\ last'.report = last.report)]_vars

\* C25: whatever the interleaving of the requests that run at once on one
\* cache key, the timestamp stored under the key never decreases.
C25_TimestampNeverDecreases ==
    [][(RaceKey \in DOMAIN stored_analysis_results
          /\ RaceKey \in DOMAIN stored_analysis_results')
         => stored_analysis_results'[RaceKey].timestamp
                >= stored_analysis_results[RaceKey].timestamp]_vars

---------------------------------------------------------------------------
(* Properties of the evaluator's prompt *)

\* the compliance context that a fresh evaluator, constructed with the same
\* company_data and compliance_docs, puts in the prompt of the same call
FreshContext ==
    evaluate_compliance(Evaluator(ev.self.company_data, ev.compliance_docs, JNull),
                        ev.jurisdiction, ev.response).compliance_text

\* C26: the compliance context that evaluate_compliance(J) puts in its prompt
\* depends on J and on the compliance_docs of the constructor only, and not
\* on the jurisdictions evaluated before on the same instance: it is the
\* context that a fresh instance builds for J.
C26_ContextIndependentOfEarlierCalls ==
    (ev.pc \in {"returned", "raised"} /\ Truthy(ev.self.company_data))
        => ev.out.compliance_text = FreshContext

---------------------------------------------------------------------------
(* Properties of the cache keys *)

\* C27: the cache key of the analyses is injective on the jurisdiction, the
\* companyName and the industry, for all strings, those with '_' included:
\* two requests with the same key have the same three fields.
C27_CacheKeyInjective ==
    (fn.op = "cache_key" /\ fn.result[1] = fn.result[2]) => fn.arg[1] = fn.arg[2]

---------------------------------------------------------------------------
(* Properties of the endpoints: what each one leaves alone *)

\* the entries of the keys other than cache_key are the same in before and after
OthersKept(before, after, cache_key) ==
    /\ DOMAIN before \ {cache_key} = DOMAIN after \ {cache_key}
    /\ \A k \in DOMAIN before \ {cache_key} : after[k] = before[k]

\* C28: GET /health and POST /export-report/<format> leave both caches as
\* they are and answer from the request alone; POST /analyze-compliance
\* leaves document_cache as it is, POST /export-regulatory-doc leaves
\* stored_analysis_results as it is, and a request for one key changes the
\* entry of no other key.
C28_CacheFrame ==
    /\ last.ep \in {"health", "export"}
           => /\ stored_analysis_results = prev_stored
              /\ document_cache = prev_docs
    /\ last.ep = "health" => last.status = 200
    /\ last.ep = "export"
           => /\ last.status = export_report(last.req.format, last.req).status
              /\ last.error = export_report(last.req.format, last.req).error
    /\ last.ep = "analyze"
           => /\ document_cache = prev_docs
              /\ OthersKept(prev_stored, stored_analysis_results, last.cache_key)
    /\ last.ep = "regdoc"
           => /\ stored_analysis_results = prev_stored
              /\ OthersKept(prev_docs, document_cache, last.cache_key)

\* an analysis stored under one key while another key has its entry
C28_Witness ==
    /\ last.ep = "analyze"
    /\ last.invoked
    /\ last.status = 200
    /\ last.cache_key \notin DOMAIN prev_stored
    /\ prev_stored # EmptyCache
    /\ last.cache_key \in DOMAIN stored_analysis_results
    /\ OthersKept(prev_stored, stored_analysis_results, last.cache_key)

====
